---------------------------- MODULE Spec2Model ----------------------------
(***************************************************************************)
(* Model of the ingestion and validation pipeline of poe-build-search:     *)
(*   - scraper/base.py    : is_garbage_text, validate_build_semantically,  *)
(*                          save_builds_to_db (three validation layers and *)
(*                          the INSERT OR REPLACE into the builds table)   *)
(*   - scraper/maxroll.py, scraper/mobalytics.py, scraper/youtube.py :     *)
(*                          the per-item loops of the scrape entry points  *)
(*                                                                         *)
(* A text is modelled by the features the code reads from it: whether it   *)
(* is None, its length, the number of '{', '}' and '":' occurrences, and   *)
(* whether one of GARBAGE_PATTERNS occurs in it.                           *)
(***************************************************************************)
EXTENDS Integers, Sequences, FiniteSets, Bags, TLC

(* ------------------------------ bounds --------------------------------- *)
\* number of runs of a scrape entry point with its cache in one behaviour
MaxRuns == 2
\* largest number of records one such run returns
MaxCached == 2
\* listing pages a run without a page cap is followed through
MaxPages == 3
\* largest number of hits on one listing page, or of objects captured on
\* one tab
MaxHits == 2
\* largest number of builds one post is matched against
MaxBuilds == 2
\* largest batch handed to one save_builds_to_db call
MaxBatch == 2
\* number of save_builds_to_db calls in one behaviour
MaxSaves == 2
\* largest number of items in one scrape run
MaxItems == 3

(* ------------------------- program constants --------------------------- *)
\* base.py:200  len(desc) < 50
MinDescLen == 50
\* base.py:58   json_chars / len(text) > 0.05, as a percentage
JsonRatioPercent == 5

(* ------------------------------- texts --------------------------------- *)
Text(n, l, j, s) == [none |-> n, len |-> l, json |-> j, sig |-> s]
None == Text(TRUE, 0, 0, FALSE)
EmptyStr == Text(FALSE, 0, 0, FALSE)

\* Python truthiness of an optional string
Truthy(t) == ~t.none /\ t.len > 0

\* the idiom  b.get(key) or ""
OrEmpty(t) == IF Truthy(t) THEN t ELSE EmptyStr

\* bug variant: the GARBAGE_PATTERNS loop is missing
is_garbage_text_NoPatterns(text) ==
    \/ ~Truthy(text)
    \/ text.len > 0 /\ text.json * 100 > JsonRatioPercent * text.len

is_garbage_text(text) ==
    \/ ~Truthy(text)
    \/ text.sig
    \/ text.len > 0 /\ text.json * 100 > JsonRatioPercent * text.len

(* ------------------------------ records -------------------------------- *)
\* two sources publishing a build under the same source_id
Keys == { <<"maxroll", "a">>, <<"mobalytics", "a">> }

\* descriptions: absent, one character short of the minimum, exactly the
\* minimum, longer with json characters at exactly 5%, carrying a signature
DescSamples ==
    { None,
      Text(FALSE, 49, 0, FALSE),
      Text(FALSE, 50, 0, FALSE),
      Text(FALSE, 60, 3, FALSE),
      Text(FALSE, 60, 0, TRUE) }

\* pros_cons / core_equipment: absent, clean, carrying a signature
FieldSamples ==
    { None,
      Text(FALSE, 30, 0, FALSE),
      Text(FALSE, 30, 0, TRUE) }

Records ==
    { [source |-> k[1], source_id |-> k[2], description_en |-> d,
       pros_cons_en |-> p, core_equipment_en |-> c] :
         k \in Keys, d \in DescSamples, p \in FieldSamples, c \in FieldSamples }

NoRecord ==
    [source |-> "", source_id |-> "", description_en |-> None,
     pros_cons_en |-> None, core_equipment_en |-> None]

(* ----------------------- semantic layer (Layer 3) ---------------------- *)
\* what subprocess.run did: raised TimeoutExpired, raised another
\* exception, or completed with a return code and a stdout
CliOutcomes ==
    { [kind |-> "timeout", returncode |-> 0, stdout |-> "nomatch"],
      [kind |-> "raise",   returncode |-> 0, stdout |-> "nomatch"] }
    \cup
    { [kind |-> "exit", returncode |-> rc, stdout |-> s] :
         rc \in {0, 1},
         s \in {"nomatch", "malformed", "valid_true", "valid_false", "no_valid_key"} }

NoCli == [kind |-> "none", returncode |-> 0, stdout |-> "nomatch"]

\* {"valid": True, "issues": []}
DefaultVerdict == [valid |-> "true", issues |-> 0]
NoVerdict == [valid |-> "none", issues |-> 0]

validate_build_semantically(c) ==
    IF c.kind \in {"timeout", "raise"} THEN DefaultVerdict
    ELSE IF c.stdout = "valid_true" THEN [valid |-> "true", issues |-> 0]
    ELSE IF c.stdout = "valid_false" THEN [valid |-> "false", issues |-> 1]
    ELSE IF c.stdout = "no_valid_key" THEN [valid |-> "absent", issues |-> 0]
    ELSE DefaultVerdict

\* validation_result.get("valid", True)
VerdictValid(v) == v.valid \in {"true", "absent"}

(* ----------------------- Layer 1 and Layer 2 --------------------------- *)
DescOf(r) == OrEmpty(r.description_en)

\* bug variant: the length check is missing
Layer1_NoLengthCheck(r) == << >>

Layer1(r) ==
    IF ~Truthy(DescOf(r)) \/ DescOf(r).len < MinDescLen
    THEN << "description_en_short" >>
    ELSE << >>

\* bug variant: a flagged field is reported but left in the record
Sanitize_NoReset(r) == r

Sanitize(r) ==
    [r EXCEPT
       !.pros_cons_en = IF is_garbage_text(OrEmpty(@)) THEN None ELSE @,
       !.core_equipment_en = IF is_garbage_text(OrEmpty(@)) THEN None ELSE @]

SanitizePrints(r) ==
    (IF is_garbage_text(OrEmpty(r.pros_cons_en)) THEN {"GARBAGE_pros_cons_en"} ELSE {})
    \cup
    (IF is_garbage_text(OrEmpty(r.core_equipment_en)) THEN {"GARBAGE_core_equipment_en"} ELSE {})

\* bug variant: the record is rejected only when both fields are empty
RequiredCheck_BothEmpty(bb) ==
    IF ~Truthy(bb.pros_cons_en) /\ ~Truthy(bb.core_equipment_en)
    THEN << "pros_cons_en_empty", "core_equipment_en_empty" >>
    ELSE << >>

RequiredCheck(bb) ==
    (IF ~Truthy(bb.pros_cons_en) THEN << "pros_cons_en_empty" >> ELSE << >>)
    \o
    (IF ~Truthy(bb.core_equipment_en) THEN << "core_equipment_en_empty" >> ELSE << >>)

\* one iteration of the loop of save_builds_to_db up to the INSERT
ValidateRecord(r, c) ==
    IF is_garbage_text(DescOf(r))
    THEN [b |-> r,
          skip_reason |-> Layer1(r) \o << "description_en_garbage" >>,
          printed |-> {"GARBAGE_description_en"},
          semCalled |-> FALSE, cli |-> NoCli, validation_result |-> NoVerdict,
          decision |-> "garbage"]
    ELSE LET bb == Sanitize(r)
             reasons == Layer1(r) \o RequiredCheck(bb)
             v == validate_build_semantically(c)
         IN  IF reasons # << >>
             THEN [b |-> bb, skip_reason |-> reasons,
                   printed |-> SanitizePrints(r) \cup {"SKIP"},
                   semCalled |-> FALSE, cli |-> NoCli,
                   validation_result |-> NoVerdict, decision |-> "skip"]
             ELSE IF ~VerdictValid(v)
             THEN [b |-> bb, skip_reason |-> reasons,
                   printed |-> SanitizePrints(r) \cup {"SEMANTIC"},
                   semCalled |-> TRUE, cli |-> c,
                   validation_result |-> v, decision |-> "semantic"]
             ELSE [b |-> bb, skip_reason |-> reasons,
                   printed |-> SanitizePrints(r),
                   semCalled |-> TRUE, cli |-> c,
                   validation_result |-> v, decision |-> "accept"]

(* ------------------------------ the store ------------------------------ *)
\* the key of the builds table
KeyOf(row) == << row.source, row.source_id >>

RowOf(bb) ==
    [source |-> bb.source, source_id |-> bb.source_id,
     description_en |-> bb.description_en,
     pros_cons_en |-> bb.pros_cons_en,
     core_equipment_en |-> bb.core_equipment_en,
     translation_status |-> "pending"]

\* A table is a bag of rows: the number of stored copies of each row.
EmptyTable == EmptyBag

\* bug variant: a plain INSERT
InsertOrReplace_PlainInsert(table, row) == table (+) SetToBag({row})

\* INSERT OR REPLACE: rows in conflict with the new row are deleted, then
\* the new row is inserted
InsertOrReplace(table, row) ==
    LET kept == { old \in BagToSet(table) : KeyOf(old) # KeyOf(row) }
    IN  [ old \in kept |-> table[old] ] (+) SetToBag({row})

\* number of stored rows with key k
RowsWithKey(table, k) ==
    BagCardinality([ old \in { x \in BagToSet(table) : KeyOf(x) = k } |-> table[old] ])

(* ------------------------------ strings -------------------------------- *)
\* an optional string: Python None or a str
NoneStr == [none |-> TRUE, val |-> ""]
Str(s) == [none |-> FALSE, val |-> s]

UpperChars == "ABCDEFGHIJKLMNOPQRSTUVWXYZ"
LowerChars == "abcdefghijklmnopqrstuvwxyz"
Digits == "0123456789"

CharAt(s, i) == SubSeq(s, i, i)

IsDigit(c) == \E i \in 1..Len(Digits) : CharAt(Digits, i) = c

LowerChar(c) ==
    IF \E i \in 1..Len(UpperChars) : CharAt(UpperChars, i) = c
    THEN CharAt(LowerChars, CHOOSE i \in 1..Len(UpperChars) : CharAt(UpperChars, i) = c)
    ELSE c

RECURSIVE Lower(_)
\* str.lower()
Lower(s) ==
    IF Len(s) = 0 THEN ""
    ELSE LowerChar(CharAt(s, 1)) \o Lower(SubSeq(s, 2, Len(s)))

\* the positions at which sub starts in s
Occurrences(sub, s) ==
    { i \in 1..(Len(s) - Len(sub) + 1) : SubSeq(s, i, i + Len(sub) - 1) = sub }

\* sub in s
Contains(sub, s) == Occurrences(sub, s) # {}

RECURSIVE Join(_, _)
\* sep.join(list)
Join(list, sep) ==
    IF Len(list) = 0 THEN ""
    ELSE IF Len(list) = 1 THEN list[1]
    ELSE list[1] \o sep \o Join(Tail(list), sep)

\* json.dumps of a list of plain strings
json_dumps(list) ==
    "[" \o Join([i \in 1..Len(list) |-> "\"" \o list[i] \o "\""], ", ") \o "]"

\* the sequences of at most n elements of S
SeqsUpTo(S, n) == UNION { [1..k -> S] : k \in 0..n }

(* --------------------------- garbage detector -------------------------- *)
\* base.py:43  GARBAGE_PATTERNS
GARBAGE_PATTERNS ==
    << "__typename", "NgfDocument", "apolloState", "__APOLLO_STATE__",
       "__NEXT_DATA__", "graphql", "\"edges\":", "\"node\":", "\"cursor\":" >>

\* text.count('{') + text.count('}') + text.count('":')
json_chars(s) ==
    Cardinality(Occurrences("{", s)) + Cardinality(Occurrences("}", s))
      + Cardinality(Occurrences("\":", s))

\* bug variant: the patterns are matched case-sensitively
TextOf_CaseSensitive(t) ==
    IF t.none THEN None
    ELSE Text(FALSE, Len(t.val), json_chars(t.val),
              \E i \in 1..Len(GARBAGE_PATTERNS) :
                  Contains(GARBAGE_PATTERNS[i], t.val))

\* what is_garbage_text reads from its argument: whether it is None, its
\* length, json_chars, and whether a pattern occurs in the lowercased text
TextOf(t) ==
    IF t.none THEN None
    ELSE Text(FALSE, Len(t.val), json_chars(t.val),
              \E i \in 1..Len(GARBAGE_PATTERNS) :
                  Contains(Lower(GARBAGE_PATTERNS[i]), Lower(t.val)))

(* --------------------------- text classifiers -------------------------- *)
MELEE_KEYWORDS ==
    << "cyclone", "strike", "slam", "melee", "cleave", "lacerate", "reave",
       "blade flurry", "double strike", "molten strike", "ground slam",
       "earthquake", "tectonic", "boneshatter", "sunder", "heavy strike",
       "viper strike", "spectral throw", "blade vortex", "whirlwind",
       "general's cry", "rage vortex", "perforate", "smite" >>

RANGED_KEYWORDS ==
    << "bow", "arrow", "shot", "barrage", "rain of arrows", "tornado shot",
       "lightning arrow", "ice shot", "split arrow", "blast rain", "ballista",
       "shrapnel", "galvanic", "kinetic bolt", "kinetic blast",
       "kinetic fusillade", "wand", "power siphon" >>

CASTER_KEYWORDS ==
    << "spell", "cast", "arc", "fireball", "spark", "ice nova",
       "freezing pulse", "storm call", "orb of storms", "firestorm",
       "ball lightning", "lightning warp", "flame surge", "magma orb",
       "glacial cascade", "volatile dead", "detonate dead", "essence drain",
       "contagion", "bane", "soulrend", "dark pact", "forbidden rite",
       "cremation", "wave of conviction", "divine ire", "storm brand",
       "armageddon brand", "winter orb", "righteous fire",
       "wintertide brand" >>

SUMMONER_KEYWORDS ==
    << "summon", "minion", "zombie", "skeleton", "spectre", "golem",
       "animate", "raise", "srs", "phantasm", "carrion", "herald of purity",
       "dominating blow", "absolution" >>

\* sum(1 for kw in keywords if kw in text)
KeywordScore(keywords, text) ==
    Cardinality({ i \in 1..Len(keywords) : Contains(keywords[i], text) })

\* the styles in the order of the scores dict
StyleOrder == << "melee", "ranged", "caster", "summoner" >>

StyleKeywords(style) ==
    CASE style = "melee" -> MELEE_KEYWORDS
      [] style = "ranged" -> RANGED_KEYWORDS
      [] style = "caster" -> CASTER_KEYWORDS
      [] style = "summoner" -> SUMMONER_KEYWORDS

\* bug variant: a tie goes to the first of the top styles
detect_combat_style_FirstOfTie(name, skills, description) ==
    LET text == Lower(name \o " " \o Join(skills, " ") \o " " \o description)
        scores == [i \in 1..4 |-> KeywordScore(StyleKeywords(StyleOrder[i]), text)]
        max_score == CHOOSE m \in { scores[i] : i \in 1..4 } :
                        \A i \in 1..4 : scores[i] <= m
        top == SelectSeq(StyleOrder,
                         LAMBDA k : \E i \in 1..4 : StyleOrder[i] = k /\ scores[i] = max_score)
    IN  IF max_score = 0 THEN "hybrid"
        ELSE top[1]

detect_combat_style(name, skills, description) ==
    LET text == Lower(name \o " " \o Join(skills, " ") \o " " \o description)
        scores == [i \in 1..4 |-> KeywordScore(StyleKeywords(StyleOrder[i]), text)]
        max_score == CHOOSE m \in { scores[i] : i \in 1..4 } :
                        \A i \in 1..4 : scores[i] <= m
        top == SelectSeq(StyleOrder,
                         LAMBDA k : \E i \in 1..4 : StyleOrder[i] = k /\ scores[i] = max_score)
    IN  IF max_score = 0 THEN "hybrid"
        ELSE IF Len(top) > 1 THEN "hybrid"
        ELSE top[1]

\* the six keyword groups of detect_specialty, in the order of its ifs
SpecialtyGroups ==
    << [label |-> "league_starter", kws |-> << "starter", "league start", "league-start" >>],
       [label |-> "boss_killer",    kws |-> << "boss", "bossing", "boss killer" >>],
       [label |-> "map_farmer",     kws |-> << "map", "mapping", "clear", "farmer", "farming" >>],
       [label |-> "all_rounder",    kws |-> << "all-around", "all around", "all rounder", "versatile" >>],
       [label |-> "speed_farmer",   kws |-> << "speed", "fast", "zoom" >>],
       [label |-> "tanky",          kws |-> << "tank", "tanky", "defensive", "survive" >>] >>

\* bug variant: no default when nothing matches
detect_specialty_NoDefault(build_types, description) ==
    LET text == Lower(Join(build_types, " ") \o " " \o description)
        hit == SelectSeq(SpecialtyGroups,
                         LAMBDA g : \E i \in 1..Len(g.kws) : Contains(g.kws[i], text))
    IN  [i \in 1..Len(hit) |-> hit[i].label]

detect_specialty(build_types, description) ==
    LET text == Lower(Join(build_types, " ") \o " " \o description)
        hit == SelectSeq(SpecialtyGroups,
                         LAMBDA g : \E i \in 1..Len(g.kws) : Contains(g.kws[i], text))
        specialties == [i \in 1..Len(hit) |-> hit[i].label]
    IN  IF Len(specialties) > 0 THEN specialties ELSE << "all_rounder" >>

(* --------------------------- source normalizers ------------------------ *)
\* the idiom  x or default  on an optional string
OrStr(t, default) == IF ~t.none /\ Len(t.val) > 0 THEN t.val ELSE default

\* s[:n]
Prefix(s, n) == SubSeq(s, 1, IF Len(s) < n THEN Len(s) ELSE n)

\* list[:n]
Take(list, n) == SubSeq(list, 1, IF Len(list) < n THEN Len(list) ELSE n)

RECURSIVE ReplaceChar(_, _, _)
\* str.replace(a, b) for one-character a
ReplaceChar(s, a, c) ==
    IF Len(s) = 0 THEN ""
    ELSE (IF CharAt(s, 1) = a THEN c ELSE CharAt(s, 1))
         \o ReplaceChar(SubSeq(s, 2, Len(s)), a, c)

RECURSIVE SplitOn(_, _)
\* str.split(sep) for a non-empty s
SplitOn(s, sep) ==
    IF ~Contains(sep, s) THEN << s >>
    ELSE LET i == CHOOSE j \in Occurrences(sep, s) :
                     \A k \in Occurrences(sep, s) : j <= k
         IN  << SubSeq(s, 1, i - 1) >>
             \o SplitOn(SubSeq(s, i + Len(sep), Len(s)), sep)

\* json.loads of what json_dumps wrote for a list of plain strings
json_loads(s) ==
    IF s = "[]" THEN << >>
    ELSE SplitOn(SubSeq(s, 3, Len(s) - 2), "\", \"")

\* the number of leading digits of s
RECURSIVE LeadingDigits(_)
LeadingDigits(s) ==
    IF Len(s) > 0 /\ IsDigit(CharAt(s, 1))
    THEN 1 + LeadingDigits(SubSeq(s, 2, Len(s)))
    ELSE 0

\* re.match(r"(\d+\.\d+)", patch): group 1, or "" when there is no match
patch_short(patch) ==
    LET a == LeadingDigits(patch)
        rest == SubSeq(patch, a + 2, Len(patch))
        c == LeadingDigits(rest)
    IN  IF a > 0 /\ Len(patch) > a /\ CharAt(patch, a + 1) = "." /\ c > 0
        THEN SubSeq(patch, 1, a + 1 + c)
        ELSE ""

ALLOWED_PATCHES == { "3.27", "3.26" }
DEFAULT_PATCH == "3.27"

\* a normalizer returned None
NoBuild == [none |-> TRUE]

\* json.dumps(list) if list else None
DumpsOrNone(list) == IF Len(list) > 0 THEN Str(json_dumps(list)) ELSE NoneStr

\* bug variant: the first playstyle tag of the page is taken as the style
maxroll_build_detail_StyleFromTag(page) ==
    [source_id |-> page.source_id,
     name_en |-> page.name,
     skills_en |-> page.skills,
     description_en |-> Prefix(page.description, 500),
     patch |-> page.patch,
     build_types |-> page.build_types,
     playstyle |-> page.playstyle,
     activities |-> page.activities,
     damage_types |-> page.damage_types,
     combat_style |-> IF Len(page.playstyle) > 0 THEN page.playstyle[1]
                      ELSE detect_combat_style(page.name, page.skills,
                                               Prefix(page.description, 500))]

\* maxroll._scrape_build_detail, from the description on: the dict it
\* returns for a page with these contents. The tag lists are the cleaned
\* taxonomies; patch is the major.minor string found on the page, in the
\* title or url, or DEFAULT_PATCH.
maxroll_build_detail(page) ==
    LET description == Prefix(page.description, 500)
        named == \E i \in 1..Len(Take(page.skills, 3)) :
                    Contains(Lower(page.skills[i]), Lower(description))
        enhanced_desc ==
            IF Len(page.skills) > 0 /\ ~named
            THEN "Main skills: " \o Join(Take(page.skills, 5), ", ") \o ". " \o description
            ELSE description
    IN  [source_id |-> page.source_id,
         name_en |-> page.name,
         skills_en |-> page.skills,
         description_en |-> enhanced_desc,
         patch |-> page.patch,
         build_types |-> page.build_types,
         playstyle |-> page.playstyle,
         activities |-> page.activities,
         damage_types |-> page.damage_types,
         combat_style |-> detect_combat_style(page.name, page.skills,
                              description \o " " \o Prefix(page.page_text, 1000))]

\* bug variant: the patch filter is missing
maxroll_normalize_record_NoPatchFilter(raw) ==
    IF Len(raw.name_en) = 0 THEN NoBuild
    ELSE LET patch == IF Len(raw.patch) > 0 THEN raw.patch ELSE DEFAULT_PATCH
             all_tags == raw.build_types \o raw.playstyle \o raw.activities
         IN  [none |-> FALSE,
              source |-> "maxroll",
              source_id |-> raw.source_id,
              name_en |-> raw.name_en,
              skills_en |-> DumpsOrNone(raw.skills_en),
              description_en |-> raw.description_en,
              patch |-> patch,
              build_types |-> DumpsOrNone(raw.build_types),
              playstyle |-> DumpsOrNone(raw.playstyle),
              activities |-> DumpsOrNone(raw.activities),
              damage_types |-> DumpsOrNone(raw.damage_types),
              verified |-> 0,
              combat_style |-> IF Len(raw.combat_style) > 0 THEN raw.combat_style
                               ELSE detect_combat_style(raw.name_en, raw.skills_en,
                                                        raw.description_en),
              specialty |-> json_dumps(detect_specialty(all_tags, raw.description_en))]

\* maxroll._normalize_build on a dict returned by _scrape_build_detail
maxroll_normalize_record(raw) ==
    IF Len(raw.name_en) = 0 THEN NoBuild
    ELSE LET patch == IF Len(raw.patch) > 0 THEN raw.patch ELSE DEFAULT_PATCH
             all_tags == raw.build_types \o raw.playstyle \o raw.activities
         IN  IF patch_short(patch) \notin ALLOWED_PATCHES THEN NoBuild
             ELSE
             [none |-> FALSE,
              source |-> "maxroll",
              source_id |-> raw.source_id,
              name_en |-> raw.name_en,
              skills_en |-> DumpsOrNone(raw.skills_en),
              description_en |-> raw.description_en,
              patch |-> patch,
              build_types |-> DumpsOrNone(raw.build_types),
              playstyle |-> DumpsOrNone(raw.playstyle),
              activities |-> DumpsOrNone(raw.activities),
              damage_types |-> DumpsOrNone(raw.damage_types),
              verified |-> 0,
              combat_style |-> IF Len(raw.combat_style) > 0 THEN raw.combat_style
                               ELSE detect_combat_style(raw.name_en, raw.skills_en,
                                                        raw.description_en),
              specialty |-> json_dumps(detect_specialty(all_tags, raw.description_en))]

\* mobalytics._normalize_build on a captured GraphQL object whose gems and
\* tags are plain strings
mobalytics_normalize_build(raw, tab) ==
    LET name == OrStr(raw.name, OrStr(raw.title, ""))
        patch == OrStr(raw.patchVersion, OrStr(raw.patch, ""))
        skills == (IF OrStr(raw.mainSkillName, "") # ""
                   THEN << raw.mainSkillName.val >> ELSE << >>) \o raw.skillGems
        build_types == raw.tags
        slug == OrStr(raw.slug, OrStr(raw.id, ReplaceChar(Lower(name), " ", "-")))
        description == OrStr(raw.description, OrStr(raw.summary, ""))
    IN  IF Len(name) = 0 THEN NoBuild
        ELSE IF patch_short(patch) \notin ALLOWED_PATCHES THEN NoBuild
        ELSE [none |-> FALSE,
              source |-> "mobalytics",
              source_id |-> OrStr(raw.id, slug),
              name_en |-> name,
              skills_en |-> DumpsOrNone(skills),
              description_en |-> description,
              patch |-> patch,
              build_types |-> DumpsOrNone(build_types),
              playstyle |-> NoneStr,
              activities |-> NoneStr,
              damage_types |-> NoneStr,
              verified |-> IF tab = "verified" THEN 1 ELSE 0,
              combat_style |-> detect_combat_style(name, skills, description),
              specialty |-> json_dumps(detect_specialty(build_types, description))]

\* mobalytics._scrape_detail_page on a normalized build: when the page was
\* read, a longer overview replaces the description and the combat style
\* is detected again from the page text; when page.goto or a read raised,
\* the build is returned as it was
mobalytics_detail_record(build, fetched, page) ==
    IF ~fetched THEN build
    ELSE [build EXCEPT
            !.description_en =
                IF Len(page.overview) > 0
                   /\ (Len(@) = 0 \/ Len(@) < Len(page.overview))
                THEN page.overview ELSE @,
            !.combat_style =
                detect_combat_style(build.name_en,
                    IF build.skills_en.none THEN << >> ELSE json_loads(build.skills_en.val),
                    Prefix(page.page_text, 2000))]

\* youtube.extract_build_from_transcript, after the extractor returned
\* the draft result
youtube_build_record(video, result) ==
    IF OrStr(result.description_en, "") = "" THEN NoBuild
    ELSE [none |-> FALSE,
          source |-> "youtube",
          source_id |-> video.video_id,
          name_en |-> video.title,
          skills_en |-> Str(json_dumps(<< >>)),
          description_en |-> result.description_en.val,
          patch |-> "3.27",
          build_types |-> Str(json_dumps(<< >>)),
          playstyle |-> NoneStr,
          activities |-> NoneStr,
          damage_types |-> NoneStr,
          verified |-> 0,
          combat_style |-> detect_combat_style(video.title, << >>,
                                               result.description_en.val),
          specialty |-> json_dumps(detect_specialty(<< >>, result.description_en.val))]

(* ------------------------- field extractor ----------------------------- *)
\* the characters \s matches, as far as a TLA+ string can hold them
Whitespace == { " ", "\t", "\n", "\r", "\f" }

Min(S) == CHOOSE x \in S : \A y \in S : x <= y
Max(S) == CHOOSE x \in S : \A y \in S : y <= x

\* the first position at or after j that holds no whitespace (Len(s) + 1
\* when there is none)
WsRunEnd(s, j) ==
    Min({ k \in j..Len(s) : CharAt(s, k) \notin Whitespace } \cup { Len(s) + 1 })

\* str.strip()
Strip(s) ==
    LET keep == { k \in 1..Len(s) : CharAt(s, k) \notin Whitespace }
    IN  IF keep = {} THEN "" ELSE SubSeq(s, Min(keep), Max(keep))

\* the five slots of a draft, all None
EmptyDraft ==
    [description_en |-> NoneStr, pros_cons_en |-> NoneStr,
     core_equipment_en |-> NoneStr, class_en |-> NoneStr,
     ascendancy_en |-> NoneStr]

\* re.search(header \s*\n(.*?)(?= stops | \Z), output, DOTALL): group 1.
\* The match starts at the first occurrence of the header that is followed
\* by whitespace holding a newline; \s* is greedy, so the group starts
\* after the last newline of that whitespace, and it ends before the first
\* stop at or after its start, or at the end of the output.
SectionMatch(header, stops, output) ==
    LET nl(i) == { n \in (i + Len(header))..(WsRunEnd(output, i + Len(header)) - 1) :
                      CharAt(output, n) = "\n" }
        starts == { i \in Occurrences(header, output) : nl(i) # {} }
    IN  IF starts = {} THEN [found |-> FALSE, group |-> ""]
        ELSE LET c == Max(nl(Min(starts))) + 1
                 e == Min({ q \in c..Len(output) :
                              \E k \in 1..Len(stops) :
                                 /\ q + Len(stops[k]) - 1 <= Len(output)
                                 /\ SubSeq(output, q, q + Len(stops[k]) - 1) = stops[k] }
                          \cup { Len(output) + 1 })
             IN  [found |-> TRUE, group |-> SubSeq(output, c, e - 1)]

\* re.search(header \s*(.+), output): group 1. \s* is greedy and gives
\* back what it must for (.+) to take at least one character that is not a
\* newline; the group runs to the end of that line.
LineMatch(header, output) ==
    LET first(i) ==
            LET j == i + Len(header)
                k == WsRunEnd(output, j)
            IN  IF k <= Len(output) THEN k
                ELSE Max({ n \in j..Len(output) : CharAt(output, n) # "\n" } \cup { 0 })
        starts == { i \in Occurrences(header, output) : first(i) > 0 }
    IN  IF starts = {} THEN [found |-> FALSE, group |-> ""]
        ELSE LET c == first(Min(starts))
                 e == Min({ q \in c..Len(output) : CharAt(output, q) = "\n" }
                          \cup { Len(output) + 1 })
             IN  [found |-> TRUE, group |-> SubSeq(output, c, e - 1)]

\* re.sub(r'^[-*]\s*', '', line)
Debullet(line) ==
    IF Len(line) > 0 /\ CharAt(line, 1) \in { "-", "*" }
    THEN SubSeq(line, WsRunEnd(line, 2), Len(line))
    ELSE line

\* the items of a CORE_EQUIPMENT section: its lines, stripped, without
\* their bullet, those longer than one character
EquipmentItems(raw_items) ==
    LET lines == SplitOn(raw_items, "\n")
        cleaned == [i \in 1..Len(lines) |-> Debullet(Strip(lines[i]))]
    IN  SelectSeq(cleaned, LAMBDA line : Len(line) > 1)

\* llm_extractor.py:52-116  what the regular expressions find in a
\* non-empty output, before the garbage check: per field, whether a usable
\* value was found, and the value
ParsedFields(output) ==
    LET desc_match == SectionMatch("DESCRIPTION:",
            << "\nPROS:", "\nCONS:", "\nCORE_EQUIPMENT:", "\nCLASS:", "\nASCENDANCY:" >>, output)
        desc == Strip(desc_match.group)
        pros_match == SectionMatch("PROS:",
            << "\nCONS:", "\nCORE_EQUIPMENT:", "\nCLASS:", "\nASCENDANCY:" >>, output)
        cons_match == SectionMatch("CONS:",
            << "\nCORE_EQUIPMENT:", "\nCLASS:", "\nASCENDANCY:" >>, output)
        pros_text == IF pros_match.found THEN Strip(pros_match.group) ELSE ""
        cons_text == IF cons_match.found THEN Strip(cons_match.group) ELSE ""
        parts == (IF Len(pros_text) > 0 THEN << "Pros:\n" \o pros_text >> ELSE << >>)
                 \o (IF Len(cons_text) > 0 THEN << "Cons:\n" \o cons_text >> ELSE << >>)
        combined == Join(parts, "\n\n")
        equip_match == SectionMatch("CORE_EQUIPMENT:",
            << "\nCLASS:", "\nASCENDANCY:" >>, output)
        items == EquipmentItems(Strip(equip_match.group))
        equipment_str == Join(items, ", ")
        class_match == LineMatch("CLASS:", output)
        class_val == Strip(class_match.group)
        asc_match == LineMatch("ASCENDANCY:", output)
        asc_val == Strip(asc_match.group)
    IN  [description_en |-> [found |-> desc_match.found /\ Len(desc) > 0, text |-> desc],
         pros_cons_en |-> [found |-> Len(parts) > 0, text |-> combined],
         core_equipment_en |-> [found |-> equip_match.found /\ Len(items) > 0,
                                text |-> equipment_str],
         class_en |-> [found |-> class_match.found /\ Len(class_val) > 0
                                   /\ Len(class_val) < 50,
                       text |-> class_val],
         ascendancy_en |-> [found |-> asc_match.found /\ Len(asc_val) > 0
                                        /\ Len(asc_val) < 50,
                            text |-> asc_val]]

\* a found value that the garbage detector flags
FlaggedField(f) == f.found /\ is_garbage_text(TextOf(Str(f.text)))

\* a found value is stored unless the garbage detector flags it
KeepText(f) == IF f.found /\ ~FlaggedField(f) THEN Str(f.text) ELSE NoneStr

\* bug variant: one flagged field empties the whole draft
DraftOf_AllOrNothing(p) ==
    IF FlaggedField(p.description_en) \/ FlaggedField(p.pros_cons_en)
       \/ FlaggedField(p.core_equipment_en)
    THEN EmptyDraft
    ELSE [description_en |-> KeepText(p.description_en),
          pros_cons_en |-> KeepText(p.pros_cons_en),
          core_equipment_en |-> KeepText(p.core_equipment_en),
          class_en |-> IF p.class_en.found THEN Str(p.class_en.text) ELSE NoneStr,
          ascendancy_en |-> IF p.ascendancy_en.found THEN Str(p.ascendancy_en.text)
                            ELSE NoneStr]

\* llm_extractor.py:57-116  the draft made of the parsed fields: the
\* garbage check is made per field, for the three free-text fields
DraftOf(p) ==
    [description_en |-> KeepText(p.description_en),
     pros_cons_en |-> KeepText(p.pros_cons_en),
     core_equipment_en |-> KeepText(p.core_equipment_en),
     class_en |-> IF p.class_en.found THEN Str(p.class_en.text) ELSE NoneStr,
     ascendancy_en |-> IF p.ascendancy_en.found THEN Str(p.ascendancy_en.text)
                       ELSE NoneStr]

\* _parse_llm_output
parse_llm_output(output) ==
    IF Len(output) = 0 THEN EmptyDraft ELSE DraftOf(ParsedFields(output))

\* bug variant: the return code of the run is not looked at
call_claude_cli_IgnoresExit(c) ==
    IF c.kind = "exit" THEN Str(Strip(c.stdout)) ELSE NoneStr

\* bug variant: only an empty text is refused
TooShort_OnlyEmpty(t) == t.none \/ Len(t.val) = 0

\* not page_text or len(page_text.strip()) < 50
TooShort(t) == t.none \/ Len(t.val) = 0 \/ Len(Strip(t.val)) < MinDescLen

\* _call_claude_cli, given what subprocess.run did (raised TimeoutExpired,
\* raised another exception, or completed): the stripped stdout of a run
\* that exited 0, else None
call_claude_cli(c) ==
    IF c.kind = "exit" /\ c.returncode = 0 THEN Str(Strip(c.stdout)) ELSE NoneStr

(* ------------------------------- cache --------------------------------- *)
\* JSON values as json.dumps writes them and json.loads reads them
JsonNull == [j |-> "null"]
JsonString(str) == [j |-> "string", s |-> str]
JsonNumber(n) == [j |-> "number", n |-> n]

\* an optional string to JSON and back
JsonOfOpt(t) == IF t.none THEN JsonNull ELSE JsonString(t.val)
OptOfJson(v) == IF v.j = "null" THEN NoneStr ELSE Str(v.s)

\* a record of the result list to a JSON object and back
JsonOfBuild(r) ==
    [source_id |-> JsonString(r.source_id),
     skills_en |-> JsonOfOpt(r.skills_en),
     favorites |-> JsonNumber(r.favorites)]

BuildOfJson(o) ==
    [source_id |-> o.source_id.s,
     skills_en |-> OptOfJson(o.skills_en),
     favorites |-> o.favorites.n]

\* no cache file
NoFile == [exists |-> FALSE]

\* save_cache: the file written for data at time now
save_cache(data, now) ==
    [exists |-> TRUE,
     scraped_at |-> JsonNumber(now),
     count |-> JsonNumber(Len(data)),
     builds |-> [i \in 1..Len(data) |-> JsonOfBuild(data[i])]]

\* load_cache: the payload of the file, or None
load_cache(file) ==
    IF file.exists
    THEN [none |-> FALSE,
          scraped_at |-> file.scraped_at.n,
          count |-> file.count.n,
          builds |-> [i \in 1..Len(file.builds) |-> BuildOfJson(file.builds[i])]]
    ELSE [none |-> TRUE]

\* bug variant: a cache file with no builds is not used
UsesCache_NonEmptyOnly(use, file) ==
    use /\ ~load_cache(file).none /\ Len(load_cache(file).builds) > 0

\* if use_cache: cached = load_cache(source); if cached: ...
UsesCache(use, file) == use /\ ~load_cache(file).none

(* ------------------------ forum-rating matching ------------------------ *)
\* bug variant: every skill of the build is tried
MainSkills_AllSkills(bb) == bb.skills_en

\* reddit.py:139  b["skills_en"][:3] if b["skills_en"] else []
MainSkills(bb) == Take(bb.skills_en, 3)

\* reddit.py:140-148  the build is matched: by the first of its main
\* skills of four characters or more that occurs in the lowercased text,
\* or else (no such skill) by its ascendancy
MatchesPost(bb, text_lower) ==
    \/ \E i \in 1..Len(MainSkills(bb)) :
          /\ Len(MainSkills(bb)[i]) >= 4
          /\ Contains(Lower(MainSkills(bb)[i]), text_lower)
    \/ /\ Len(bb.ascendancy_en) >= 4
       /\ Contains(Lower(bb.ascendancy_en), text_lower)

RECURSIVE match_build(_, _)
\* reddit._match_build: the loop over builds appends a matched build once
match_build(post_text, builds) ==
    IF Len(builds) = 0 THEN << >>
    ELSE (IF MatchesPost(Head(builds), Lower(post_text))
          THEN << Head(builds) >> ELSE << >>)
         \o match_build(post_text, Tail(builds))

(* ----------------------------- translator ------------------------------ *)
\* claude_cli.py:29  self.max_retries
max_retries == 3

\* bug variant: an empty answer of a run that exited 0 is returned
AttemptReturns_AnyExitZero(c) == c.kind = "exit" /\ c.returncode = 0

\* claude_cli.py:100-114  the attempt returns: subprocess.run (check=True)
\* completed with exit status 0 and the stripped stdout is not empty
AttemptReturns(c) ==
    c.kind = "exit" /\ c.returncode = 0 /\ Len(Strip(c.stdout)) > 0

\* the columns of a builds row that translate_build writes, all NULL
NoTranslation ==
    [name_ja |-> NoneStr, class_ja |-> NoneStr, ascendancy_ja |-> NoneStr,
     skills_ja |-> NoneStr, description_ja |-> NoneStr,
     pros_cons_ja |-> NoneStr, core_equipment_ja |-> NoneStr]

\* the columns the INSERT of save_builds_to_db does not list take the
\* default of the schema
UnlistedDefault == NoneStr

\* base.py:242-263  the row that the INSERT OR REPLACE of save_builds_to_db
\* writes for the accepted record bb, by the columns the translator reads
\* and writes: pros_cons_ja and core_equipment_ja come from the record,
\* translation_status is the literal 'pending'
BuildsRow(bb) ==
    [source |-> bb.source, source_id |-> bb.source_id,
     name_en |-> bb.name_en, class_en |-> bb.class_en,
     ascendancy_en |-> bb.ascendancy_en, skills_en |-> bb.skills_en,
     description_en |-> bb.description_en,
     pros_cons_en |-> bb.pros_cons_en,
     core_equipment_en |-> bb.core_equipment_en,
     ja |-> [name_ja |-> UnlistedDefault, class_ja |-> UnlistedDefault,
             ascendancy_ja |-> UnlistedDefault, skills_ja |-> UnlistedDefault,
             description_ja |-> UnlistedDefault,
             pros_cons_ja |-> bb.pros_cons_ja,
             core_equipment_ja |-> bb.core_equipment_ja],
     translation_status |-> "pending"]

\* bug variant: an upsert that updates the listed columns of the row in
\* conflict and keeps its other columns
PersistRecord_KeepsUnlisted(table, bb) ==
    LET old == { x \in BagToSet(table) : KeyOf(x) = KeyOf(BuildsRow(bb)) }
    IN  IF old = {} THEN InsertOrReplace(table, BuildsRow(bb))
        ELSE LET o == CHOOSE x \in old : TRUE
             IN  InsertOrReplace(table,
                    [BuildsRow(bb) EXCEPT
                       !.ja = [ o.ja EXCEPT
                                  !.pros_cons_ja = bb.pros_cons_ja,
                                  !.core_equipment_ja = bb.core_equipment_ja ]])

\* base.py:242-264  the accepted record is written and committed
PersistRecord(table, bb) == InsertOrReplace(table, BuildsRow(bb))

\* claude_cli.py:149-161  SELECT ... FROM builds WHERE id = ?  (a row is
\* named here by its key)
SelectRow(table, k) ==
    LET hit == { x \in BagToSet(table) : KeyOf(x) = k }
    IN  IF hit = {} THEN [found |-> FALSE]
        ELSE [found |-> TRUE, row |-> CHOOSE x \in hit : TRUE]

\* UPDATE builds SET ... WHERE id = ?
UpdateRow(table, k, new) ==
    LET hit == { x \in BagToSet(table) : KeyOf(x) = k }
    IN  IF hit = {} THEN table
        ELSE (table (-) SetToBag(hit)) (+) SetToBag({ new })

\* claude_cli.py:166-199  the translate_text calls translate_build makes
\* for a row, in order, each named by the column it is for: name and class
\* always, the others when the English column is not empty, skills once
\* per skill of the list
TodoOf(row) ==
    << "name_ja", "class_ja" >>
    \o (IF OrStr(row.ascendancy_en, "") # "" THEN << "ascendancy_ja" >> ELSE << >>)
    \o (IF OrStr(row.skills_en, "") # ""
        THEN [i \in 1..Len(json_loads(row.skills_en.val)) |-> "skills_ja"]
        ELSE << >>)
    \o (IF OrStr(row.description_en, "") # "" THEN << "description_ja" >> ELSE << >>)
    \o (IF OrStr(row.pros_cons_en, "") # "" THEN << "pros_cons_ja" >> ELSE << >>)
    \o (IF OrStr(row.core_equipment_en, "") # "" THEN << "core_equipment_ja" >> ELSE << >>)

\* the translations of the calls made so far, by column; the skills as
\* the list of their translations
NoDone ==
    [name_ja |-> NoneStr, class_ja |-> NoneStr, ascendancy_ja |-> NoneStr,
     skills |-> << >>, description_ja |-> NoneStr,
     pros_cons_ja |-> NoneStr, core_equipment_ja |-> NoneStr]

\* the call for column slot returned translated
DoneWith(done, slot, translated) ==
    IF slot = "skills_ja" THEN [done EXCEPT !.skills = Append(@, translated)]
    ELSE [done EXCEPT ![slot] = Str(translated)]

\* bug variant: the handler of a failure stores what was translated so far
FailedRow_StoresPartial(row, done) ==
    [row EXCEPT !.translation_status = "failed",
                !.ja = [ @ EXCEPT !.name_ja = done.name_ja,
                                  !.class_ja = done.class_ja ]]

\* claude_cli.py:224-235  UPDATE builds SET translation_status = 'failed'
FailedRow(row, done) == [row EXCEPT !.translation_status = "failed"]

\* claude_cli.py:202-220  UPDATE builds SET name_ja = ?, ...,
\* translation_status = 'completed'
CompletedRow(cur, row, done) ==
    [cur EXCEPT
       !.translation_status = "completed",
       !.ja = [name_ja |-> done.name_ja,
               class_ja |-> done.class_ja,
               ascendancy_ja |-> done.ascendancy_ja,
               skills_ja |-> IF OrStr(row.skills_en, "") # ""
                             THEN Str(json_dumps(done.skills)) ELSE NoneStr,
               description_ja |-> done.description_ja,
               pros_cons_ja |-> done.pros_cons_ja,
               core_equipment_ja |-> done.core_equipment_ja]]

(* ------------------------------ listing -------------------------------- *)
\* max_pages of maxroll._scrape_build_list: None or a number
NoCap == [none |-> TRUE, val |-> 0]
Cap(n) == [none |-> FALSE, val |-> n]

\* bug variant: the cap is compared one page late
CapReached_OnePageLate(cap, page) ==
    ~cap.none /\ cap.val # 0 /\ page > cap.val + 1

\* maxroll.py:148  if max_pages and current_page > max_pages: break
CapReached(cap, page) ==
    ~cap.none /\ cap.val # 0 /\ page > cap.val

\* the identifier of a hit:  b.get("post_permalink") or b.get("permalink") or ""
HitPermalink(h) == OrStr(h.post_permalink, OrStr(h.permalink, ""))

\* maxroll.py:174-181  the hit belongs to the other game
IsPoe2(h) ==
    LET game == OrStr(h.game, OrStr(h.post_game, ""))
    IN  \/ Contains("poe2", Lower(game))
        \/ Contains("path of exile 2", Lower(game))
        \/ Contains("/poe2/", HitPermalink(h))
        \/ Contains("/path-of-exile-2/", HitPermalink(h))

\* bug variant: seen_ids is not consulted
TakeHit_NoSeen(h, seen) ==
    ~IsPoe2(h) /\ HitPermalink(h) # ""

\* maxroll.py:183-186  the hit is kept: it has an identifier not seen before
TakeHit(h, seen) ==
    ~IsPoe2(h) /\ HitPermalink(h) # "" /\ HitPermalink(h) \notin seen

RECURSIVE poe1_builds(_, _)
\* maxroll.py:172-186  the filter loop over the hits of one page: the
\* identifiers kept, those skipped as already seen, and seen_ids afterwards
poe1_builds(hits, seen) ==
    IF Len(hits) = 0 THEN [builds |-> << >>, dups |-> {}, seen |-> seen]
    ELSE LET h == Head(hits)
             take == TakeHit(h, seen)
             dup == ~IsPoe2(h) /\ HitPermalink(h) \in seen
             rest == poe1_builds(Tail(hits),
                         IF take THEN seen \cup { HitPermalink(h) } ELSE seen)
         IN  [builds |-> (IF take THEN << HitPermalink(h) >> ELSE << >>) \o rest.builds,
              dups |-> (IF dup THEN { HitPermalink(h) } ELSE {}) \cup rest.dups,
              seen |-> rest.seen]

\* maxroll.py:458  source_id = permalink.split("/")[-1] or permalink
maxroll_source_id(permalink) ==
    LET parts == SplitOn(permalink, "/")
        last == parts[Len(parts)]
    IN  IF Len(last) > 0 THEN last ELSE permalink

RECURSIVE scrape_tab_builds(_, _, _)
\* mobalytics.py:365-372  the normalization loop of scrape_tab: the
\* source_ids of the builds kept, in order, with its local seen_ids
scrape_tab_builds(captured_raw, tab, seen) ==
    IF Len(captured_raw) = 0 THEN [builds |-> << >>, dups |-> {}]
    ELSE LET bb == mobalytics_normalize_build(Head(captured_raw), tab)
             take == ~bb.none /\ bb.source_id \notin seen
             dup == ~bb.none /\ bb.source_id \in seen
             rest == scrape_tab_builds(Tail(captured_raw), tab,
                         IF take THEN seen \cup { bb.source_id } ELSE seen)
         IN  [builds |-> (IF take THEN << bb.source_id >> ELSE << >>) \o rest.builds,
              dups |-> (IF dup THEN { bb.source_id } ELSE {}) \cup rest.dups]

RECURSIVE AppendUnseen(_, _)
\* mobalytics.py:477-480  the builds of one tab are appended to all_builds
\* unless their source_id is in the seen_ids of the entry point
AppendUnseen(builds, seen) ==
    IF Len(builds) = 0 THEN [builds |-> << >>, dups |-> {}, seen |-> seen]
    ELSE LET id == Head(builds)
             take == id \notin seen
             rest == AppendUnseen(Tail(builds), seen \cup { id })
         IN  [builds |-> (IF take THEN << id >> ELSE << >>) \o rest.builds,
              dups |-> (IF take THEN {} ELSE { id }) \cup rest.dups,
              seen |-> rest.seen]

(* ------------------------------- state --------------------------------- *)
VARIABLES
    pc,                     \* position of save_builds_to_db
    conn,                   \* state of the connection of the current save
    store,                  \* committed rows of the builds table
    txn,                    \* rows as seen by the open connection
    saves,                  \* save_builds_to_db calls started
    nRecords,               \* len(builds) of the current call
    idx,                    \* records of the batch consumed by the loop
    rawB,                   \* the record b as it was passed in
    b,                      \* the record b after the iteration
    skip_reason,            \* skip_reason of the iteration
    printed,                \* report lines printed by the iteration
    semCalled,              \* validate_build_semantically was invoked
    cli,                    \* what the subprocess of that invocation did
    validation_result,      \* its return value
    decision,               \* how the iteration ended
    saved_count, skipped_count, semantic_invalid_count,
    storeAtCall,            \* the committed rows when the current save began
    spc,                    \* position of the scrape entry point
    site,                   \* which entry point is running
    nItems,                 \* items found by the listing phase
    pos,                    \* items consumed by the detail loop
    itemLog,                \* what happened to each consumed item
    all_builds,             \* the result list (items by their index)
    npc,                    \* position of the normalization of one item
    nsrc,                   \* the normalizer that ran
    raw,                    \* the raw dict handed to it
    normalized,             \* what it returned
    tfn,                    \* the classifier or detector that was called
    targs,                  \* its arguments
    tret,                   \* its return value
    epc,                    \* position of extract_build_info_via_llm
    page_text,              \* its page_text argument
    ewhich,                 \* what the 'which claude' run did
    ecli,                   \* what the 'claude' run did
    ecalls,                 \* 'claude' runs started
    output,                 \* what _call_claude_cli returned
    draft,                  \* the dict extract_build_info_via_llm returned
    cpc,                    \* position of the entry point that uses the cache
    csite,                  \* the source it scrapes
    use_cache,              \* its use_cache argument
    cfiles,                 \* the cache file of each source
    cfileAtCall,            \* the cache file of csite when the run began
    cfetches,               \* pages fetched by the run
    cresult,                \* the list the run returned
    cwritten,               \* per source, the list returned by the run
                            \* that wrote its cache file
    cruns,                  \* runs started
    lpc,                    \* position of the entry point that lists
    lsite,                  \* the source it scrapes
    max_pages,              \* the page cap of _scrape_build_list
    current_page,           \* current_page of _scrape_build_list
    tabs_done,              \* tabs consumed by the loop of scrape_mobalytics
    seen_ids,               \* seen_ids of the listing phase
    listed,                 \* identifiers listed so far, in order
    ldups,                  \* identifiers met again and skipped
    lstop,                  \* why the page loop of maxroll ended
    lpos,                   \* items consumed by the detail loop
    llog,                   \* the page loads of the run, in order
    lresult,                \* the source_ids of the list the run returns
    tpc,                    \* position of translate_build
    tbuilds,                \* the builds table, by the translator's columns
    tsaved,                 \* the record save_builds_to_db persisted last
    tkey,                   \* the row translate_build was called for
    trow,                   \* the row its SELECT fetched
    ttodo,                  \* the translate_text calls it makes, in order
    tidx,                   \* calls that have returned
    tdone,                  \* the translations they returned
    tt,                     \* the translate_text call made last
    tok                     \* what translate_build returned

saveVars == << pc, conn, store, txn, saves, nRecords, idx, rawB, b, storeAtCall,
               skip_reason, printed, semCalled, cli, validation_result,
               decision, saved_count, skipped_count, semantic_invalid_count >>

scrapeVars == << spc, site, nItems, pos, itemLog, all_builds >>

recVars == << nsrc, raw, normalized >>

callVars == << tfn, targs, tret >>

normVars == << npc, recVars, callVars >>

extractVars == << epc, page_text, ewhich, ecli, ecalls, output, draft >>

cacheVars == << cpc, csite, use_cache, cfiles, cfileAtCall, cfetches, cresult,
                cwritten, cruns >>

listVars == << lpc, lsite, max_pages, current_page, tabs_done, seen_ids,
               listed, ldups, lstop, lpos, llog, lresult >>

transVars == << tpc, tbuilds, tsaved, tkey, trow, ttodo, tidx, tdone, tt, tok >>

vars == << saveVars, scrapeVars, normVars, extractVars, cacheVars, listVars,
           transVars >>

\* what the actions of each machine leave alone
notSaveVars == << scrapeVars, normVars, extractVars, cacheVars, listVars, transVars >>
notScrapeVars == << saveVars, normVars, extractVars, cacheVars, listVars, transVars >>
notNormVars == << saveVars, scrapeVars, extractVars, cacheVars, listVars, transVars >>
notExtractVars == << saveVars, scrapeVars, normVars, cacheVars, listVars, transVars >>
notCacheVars == << saveVars, scrapeVars, normVars, extractVars, listVars, transVars >>
notListVars == << saveVars, scrapeVars, normVars, extractVars, cacheVars,
                 transVars >>
notTransVars == << saveVars, scrapeVars, normVars, extractVars, cacheVars,
                  listVars >>

iterVars == << rawB, b, skip_reason, printed, semCalled, cli,
               validation_result, decision >>

ResetIter ==
    /\ rawB' = NoRecord
    /\ b' = NoRecord
    /\ skip_reason' = << >>
    /\ printed' = {}
    /\ semCalled' = FALSE
    /\ cli' = NoCli
    /\ validation_result' = NoVerdict
    /\ decision' = "none"

SaveInit ==
    /\ pc = "idle"
    /\ conn = "none"
    /\ store = EmptyTable
    /\ storeAtCall = EmptyTable
    /\ txn = EmptyTable
    /\ saves = 0
    /\ nRecords = 0
    /\ idx = 0
    /\ rawB = NoRecord
    /\ b = NoRecord
    /\ skip_reason = << >>
    /\ printed = {}
    /\ semCalled = FALSE
    /\ cli = NoCli
    /\ validation_result = NoVerdict
    /\ decision = "none"
    /\ saved_count = 0
    /\ skipped_count = 0
    /\ semantic_invalid_count = 0

(* -------------------------- save_builds_to_db -------------------------- *)
\* aiosqlite.connect succeeds; the counters are initialised
SaveBegin ==
    /\ pc \in {"idle", "returned", "raised"}
    /\ saves < MaxSaves
    /\ \E n \in 0..MaxBatch : nRecords' = n
    /\ saves' = saves + 1
    /\ conn' = "open"
    /\ txn' = store
    /\ idx' = 0
    /\ saved_count' = 0
    /\ skipped_count' = 0
    /\ semantic_invalid_count' = 0
    /\ ResetIter
    /\ pc' = "loop"
    /\ UNCHANGED store
    /\ storeAtCall' = store
    /\ UNCHANGED notSaveVars

\* aiosqlite.connect raises: no connection exists and the call ends
ConnectFail ==
    /\ pc \in {"idle", "returned", "raised"}
    /\ saves < MaxSaves
    /\ saves' = saves + 1
    /\ conn' = "none"
    /\ txn' = EmptyTable
    /\ nRecords' = 0
    /\ idx' = 0
    /\ saved_count' = 0
    /\ skipped_count' = 0
    /\ semantic_invalid_count' = 0
    /\ ResetIter
    /\ pc' = "raised"
    /\ UNCHANGED store
    /\ storeAtCall' = store
    /\ UNCHANGED notSaveVars

\* bug variant: a semantic rejection is counted only in
\* semantic_invalid_count
ProcessRecord_SemanticOnly ==
    /\ pc = "loop"
    /\ idx < nRecords
    /\ \E r \in Records :
       \E c \in (IF ValidateRecord(r, NoCli).semCalled THEN CliOutcomes ELSE {NoCli}) :
       \E sinkOk \in (IF ValidateRecord(r, c).decision = "accept" THEN BOOLEAN ELSE {TRUE}) :
         LET res == ValidateRecord(r, c) IN
         /\ rawB' = r
         /\ b' = res.b
         /\ skip_reason' = res.skip_reason
         /\ printed' = res.printed
         /\ semCalled' = res.semCalled
         /\ cli' = res.cli
         /\ validation_result' = res.validation_result
         /\ idx' = idx + 1
         /\ IF res.decision = "accept"
            THEN IF sinkOk
                 THEN /\ txn' = InsertOrReplace(txn, RowOf(res.b))
                      /\ saved_count' = saved_count + 1
                      /\ decision' = "saved"
                      /\ pc' = "loop"
                      /\ UNCHANGED << skipped_count, semantic_invalid_count >>
                 ELSE /\ decision' = "error"
                      /\ pc' = "raising"
                      /\ UNCHANGED << txn, saved_count, skipped_count,
                                      semantic_invalid_count >>
            ELSE /\ decision' = res.decision
                 /\ skipped_count' = IF res.decision = "semantic"
                                     THEN skipped_count
                                     ELSE skipped_count + 1
                 /\ semantic_invalid_count' =
                       IF res.decision = "semantic"
                       THEN semantic_invalid_count + 1
                       ELSE semantic_invalid_count
                 /\ pc' = "loop"
                 /\ UNCHANGED << txn, saved_count >>
    /\ UNCHANGED << conn, store, saves, nRecords >>
    /\ UNCHANGED storeAtCall
    /\ UNCHANGED notSaveVars

\* one iteration of  for b in builds
ProcessRecord ==
    /\ pc = "loop"
    /\ idx < nRecords
    /\ \E r \in Records :
       \E c \in (IF ValidateRecord(r, NoCli).semCalled THEN CliOutcomes ELSE {NoCli}) :
       \E sinkOk \in (IF ValidateRecord(r, c).decision = "accept" THEN BOOLEAN ELSE {TRUE}) :
         LET res == ValidateRecord(r, c) IN
         /\ rawB' = r
         /\ b' = res.b
         /\ skip_reason' = res.skip_reason
         /\ printed' = res.printed
         /\ semCalled' = res.semCalled
         /\ cli' = res.cli
         /\ validation_result' = res.validation_result
         /\ idx' = idx + 1
         /\ IF res.decision = "accept"
            THEN IF sinkOk
                 THEN /\ txn' = InsertOrReplace(txn, RowOf(res.b))
                      /\ saved_count' = saved_count + 1
                      /\ decision' = "saved"
                      /\ pc' = "loop"
                      /\ UNCHANGED << skipped_count, semantic_invalid_count >>
                 ELSE /\ decision' = "error"
                      /\ pc' = "raising"
                      /\ UNCHANGED << txn, saved_count, skipped_count,
                                      semantic_invalid_count >>
            ELSE /\ decision' = res.decision
                 /\ skipped_count' = skipped_count + 1
                 /\ semantic_invalid_count' =
                       IF res.decision = "semantic"
                       THEN semantic_invalid_count + 1
                       ELSE semantic_invalid_count
                 /\ pc' = "loop"
                 /\ UNCHANGED << txn, saved_count >>
    /\ UNCHANGED << conn, store, saves, nRecords >>
    /\ UNCHANGED storeAtCall
    /\ UNCHANGED notSaveVars

\* await db.commit() after the loop
Commit ==
    /\ pc = "loop"
    /\ idx = nRecords
    /\ store' = txn
    /\ pc' = "committed"
    /\ UNCHANGED << conn, txn, saves, nRecords, idx, iterVars,
                    saved_count, skipped_count, semantic_invalid_count >>
    /\ UNCHANGED storeAtCall
    /\ UNCHANGED notSaveVars

\* db.commit() raises
CommitFail ==
    /\ pc = "loop"
    /\ idx = nRecords
    /\ pc' = "raising"
    /\ UNCHANGED << conn, store, txn, saves, nRecords, idx, iterVars,
                    saved_count, skipped_count, semantic_invalid_count >>
    /\ UNCHANGED storeAtCall
    /\ UNCHANGED notSaveVars

\* bug variant: the pending inserts are committed on the way out
Close_Commits ==
    /\ pc \in {"committed", "raising"}
    /\ conn' = "closed"
    /\ store' = txn
    /\ txn' = EmptyTable
    /\ pc' = IF pc = "committed" THEN "returned" ELSE "raised"
    /\ UNCHANGED << saves, nRecords, idx, iterVars,
                    saved_count, skipped_count, semantic_invalid_count >>
    /\ UNCHANGED storeAtCall
    /\ UNCHANGED notSaveVars

\* finally: await db.close(); what was not committed is rolled back
Close ==
    /\ pc \in {"committed", "raising"}
    /\ conn' = "closed"
    /\ txn' = EmptyTable
    /\ pc' = IF pc = "committed" THEN "returned" ELSE "raised"
    /\ UNCHANGED << store, saves, nRecords, idx, iterVars,
                    saved_count, skipped_count, semantic_invalid_count >>
    /\ UNCHANGED storeAtCall
    /\ UNCHANGED notSaveVars

(* ---------------------- the scrape entry points ------------------------ *)
Sites == {"maxroll", "mobalytics", "youtube"}

\* bug variant: a failing page.goto is not caught
maxroll_scrape_build_detail_Propagates(fetch, parse) ==
    IF fetch = "fail" THEN [ret |-> "RAISE", gotoCalls |-> 1, outcome |-> "fetch_failed"]
    ELSE IF parse = "fail" THEN [ret |-> "None", gotoCalls |-> 1, outcome |-> "parse_failed"]
    ELSE [ret |-> "detail", gotoCalls |-> 1, outcome |-> "ok"]

\* maxroll._scrape_build_detail: one page.goto; its failure and any failure
\* while reading the page are caught and give None
maxroll_scrape_build_detail(fetch, parse) ==
    IF fetch = "fail" THEN [ret |-> "None", gotoCalls |-> 1, outcome |-> "fetch_failed"]
    ELSE IF parse = "fail" THEN [ret |-> "None", gotoCalls |-> 1, outcome |-> "parse_failed"]
    ELSE [ret |-> "detail", gotoCalls |-> 1, outcome |-> "ok"]

\* maxroll._normalize_build: None on an exception and on a filtered patch
maxroll_normalize_build(norm) ==
    IF norm = "ok" THEN [ret |-> "build", outcome |-> "ok"]
    ELSE IF norm = "exception" THEN [ret |-> "None", outcome |-> "normalize_exception"]
    ELSE [ret |-> "None", outcome |-> "filtered"]

\* mobalytics._scrape_detail_page: one page.goto; every exception is caught
\* and the build is returned as it was
mobalytics_scrape_detail_page(fetch, parse) ==
    IF fetch = "fail" THEN [ret |-> "build", gotoCalls |-> 1, outcome |-> "fetch_failed"]
    ELSE IF parse = "fail" THEN [ret |-> "build", gotoCalls |-> 1, outcome |-> "parse_failed"]
    ELSE [ret |-> "build", gotoCalls |-> 1, outcome |-> "ok"]

\* youtube.get_video_transcript: one api.fetch; every exception gives None
get_video_transcript(fetch) ==
    IF fetch = "fail" THEN [ret |-> "None", gotoCalls |-> 1, outcome |-> "fetch_failed"]
    ELSE [ret |-> "text", gotoCalls |-> 1, outcome |-> "ok"]

\* youtube.extract_build_from_transcript: None when the extractor gave no
\* description (the extractor itself catches every failure of its call)
extract_build_from_transcript(parse) ==
    IF parse = "fail" THEN [ret |-> "None", outcome |-> "parse_failed"]
    ELSE [ret |-> "build", outcome |-> "ok"]

\* the body of the detail loop of the running entry point for one item
ItemStep(s, fetch, parse, norm) ==
    IF s = "maxroll"
    THEN LET d == maxroll_scrape_build_detail(fetch, parse)
             n == maxroll_normalize_build(norm)
         IN  IF d.ret = "RAISE"
             THEN [raised |-> TRUE, append |-> FALSE, gotoCalls |-> d.gotoCalls,
                   outcome |-> d.outcome]
             ELSE IF d.ret = "None"
             THEN [raised |-> FALSE, append |-> FALSE, gotoCalls |-> d.gotoCalls,
                   outcome |-> d.outcome]
             ELSE [raised |-> FALSE, append |-> n.ret = "build",
                   gotoCalls |-> d.gotoCalls, outcome |-> n.outcome]
    ELSE IF s = "mobalytics"
    THEN LET d == mobalytics_scrape_detail_page(fetch, parse)
         IN  [raised |-> FALSE, append |-> TRUE, gotoCalls |-> d.gotoCalls,
              outcome |-> d.outcome]
    ELSE LET t == get_video_transcript(fetch)
             e == extract_build_from_transcript(parse)
         IN  IF t.ret = "None"
             THEN [raised |-> FALSE, append |-> FALSE, gotoCalls |-> t.gotoCalls,
                   outcome |-> t.outcome]
             ELSE [raised |-> FALSE, append |-> e.ret = "build",
                   gotoCalls |-> t.gotoCalls, outcome |-> e.outcome]

ScrapeInit ==
    /\ spc = "idle"
    /\ site = "none"
    /\ nItems = 0
    /\ pos = 0
    /\ itemLog = << >>
    /\ all_builds = << >>

\* the entry point starts; the listing phase has produced its items
\* (mobalytics holds them in all_builds already, the other two append in
\* the detail loop)
ScrapeBegin ==
    /\ spc = "idle"
    /\ \E s \in Sites, n \in 0..MaxItems :
         /\ site' = s
         /\ nItems' = n
         /\ all_builds' = IF s = "mobalytics" THEN [i \in 1..n |-> i] ELSE << >>
    /\ pos' = 0
    /\ itemLog' = << >>
    /\ spc' = "detail"
    /\ UNCHANGED notScrapeVars

\* one iteration of the detail loop
ScrapeItem ==
    /\ spc = "detail"
    /\ pos < nItems
    /\ \E fetch \in {"ok", "fail"} :
       \E parse \in (IF fetch = "ok" THEN {"ok", "fail"} ELSE {"ok"}) :
       \E norm \in (IF site = "maxroll" /\ fetch = "ok" /\ parse = "ok"
                    THEN {"ok", "exception", "filtered"} ELSE {"ok"}) :
         LET res == ItemStep(site, fetch, parse, norm) IN
         /\ pos' = pos + 1
         /\ itemLog' = Append(itemLog,
                 [item |-> pos + 1, firstFetch |-> fetch,
                  gotoCalls |-> res.gotoCalls, outcome |-> res.outcome])
         /\ all_builds' = IF site # "mobalytics" /\ res.append
                          THEN Append(all_builds, pos + 1)
                          ELSE all_builds
         /\ spc' = IF ~res.raised THEN "detail"
                   ELSE IF site = "youtube" THEN "raised"
                   ELSE "done"
    /\ UNCHANGED << site, nItems >>
    /\ UNCHANGED notScrapeVars

\* the loop is over: the entry point returns (or goes on to save)
ScrapeFinish ==
    /\ spc = "detail"
    /\ pos = nItems
    /\ spc' = "done"
    /\ UNCHANGED << site, nItems, pos, itemLog, all_builds >>
    /\ UNCHANGED notScrapeVars

(* ----------------------- normalization of one item --------------------- *)
\* pages of maxroll: name, skills, description, body text, patch, tags
MaxrollPages ==
    { [source_id |-> "a", name |-> n, skills |-> sk, description |-> d,
       page_text |-> pt, patch |-> pa, build_types |-> bt, playstyle |-> ps,
       activities |-> ac, damage_types |-> dt] :
        n \in { "", "Arc Witch", "Cyclone Slayer" },
        sk \in { << >>, << "Cyclone" >>, << "Summon Skeletons", "Raise Zombie" >> },
        d \in { "", "Fast league starter that clears maps" },
        pt \in { "", "Use a bow and arrows" },
        pa \in { "3.27", "3.26", "3.25", "3.270" },
        bt \in { << >>, << "League Starter" >> },
        ps \in { << >>, << "Melee" >> },
        ac \in { << >>, << "Bossing", "Mapping" >> },
        dt \in { << >>, << "Fire" >> } }

\* captured GraphQL objects of mobalytics
MobalyticsRaws ==
    { [name |-> nt[1], title |-> nt[2], patchVersion |-> pp[1], patch |-> pp[2],
       mainSkillName |-> sk[1], skillGems |-> sk[2], tags |-> tg,
       id |-> id, slug |-> NoneStr, description |-> d, summary |-> NoneStr] :
        nt \in { << NoneStr, NoneStr >>, << Str("Arc Witch"), NoneStr >>,
                 << NoneStr, Str("Ice Shot Deadeye") >> },
        pp \in { << NoneStr, NoneStr >>, << Str("3.25.1"), NoneStr >>,
                 << Str("3.27.2"), NoneStr >>, << NoneStr, Str("3.26") >>,
                 << Str("v3.27"), NoneStr >>, << Str("3.270"), Str("3.27") >> },
        sk \in { << NoneStr, << >> >>, << Str("Arc"), << >> >>,
                 << NoneStr, << "Spark", "Raise Spectre" >> >> },
        tg \in { << >>, << "Boss", "Tank" >> },
        id \in { NoneStr, Str("b1") },
        d \in { NoneStr, Str("A versatile build") } }

TABS == { "verified", "creator", "community" }

\* what a detail page of mobalytics shows
MobalyticsPages ==
    { [overview |-> ov, page_text |-> pt] :
        ov \in { "", "A strike build that slams" },
        pt \in { "", "Summon Skeletons and Zombie minions" } }

\* videos and the drafts the extractor returned for their transcripts
Videos == { [video_id |-> "v1", title |-> t] : t \in { "Best Arc build", "My video" } }

Drafts ==
    { [description_en |-> d] :
        d \in { NoneStr, Str(""), Str("A tanky minion build for bossing") } }

NormInit ==
    /\ npc = "idle"
    /\ nsrc = "none"
    /\ raw = NoBuild
    /\ normalized = NoBuild
    /\ tfn = "none"
    /\ targs = NoBuild
    /\ tret = NoBuild

\* maxroll: _scrape_build_detail returned a dict, _normalize_build runs
NormalizeMaxroll ==
    /\ npc = "idle"
    /\ \E page \in MaxrollPages :
         /\ raw' = maxroll_build_detail(page)
         /\ normalized' = maxroll_normalize_record(maxroll_build_detail(page))
    /\ nsrc' = "maxroll"
    /\ npc' = "normalized"
    /\ UNCHANGED callVars
    /\ UNCHANGED notNormVars

\* mobalytics: scrape_tab normalizes one captured object
NormalizeMobalytics ==
    /\ npc = "idle"
    /\ \E r \in MobalyticsRaws, tab \in TABS :
         /\ raw' = r
         /\ normalized' = mobalytics_normalize_build(r, tab)
    /\ nsrc' = "mobalytics"
    /\ npc' = "normalized"
    /\ UNCHANGED callVars
    /\ UNCHANGED notNormVars

\* mobalytics, phase 2: the detail page of a listed build
DetailMobalytics ==
    /\ npc = "normalized"
    /\ nsrc = "mobalytics"
    /\ ~normalized.none
    /\ \E fetched \in BOOLEAN :
       \E page \in (IF fetched THEN MobalyticsPages
                    ELSE { [overview |-> "", page_text |-> ""] }) :
         normalized' = mobalytics_detail_record(normalized, fetched, page)
    /\ nsrc' = "mobalytics_detail"
    /\ npc' = "detailed"
    /\ UNCHANGED raw
    /\ UNCHANGED callVars
    /\ UNCHANGED notNormVars

\* youtube: a build is made of a video and the draft of its transcript
BuildFromTranscript ==
    /\ npc = "idle"
    /\ \E video \in Videos, result \in Drafts :
         /\ raw' = [video |-> video, result |-> result]
         /\ normalized' = youtube_build_record(video, result)
    /\ nsrc' = "youtube"
    /\ npc' = "normalized"
    /\ UNCHANGED callVars
    /\ UNCHANGED notNormVars

(* ------------------- calls of the classifiers and detector ------------- *)
\* names, skill lists and descriptions: keywords of one style, of several
\* styles, of none, in upper case, inside longer words, and across the
\* space that joins two arguments
StyleNames == { "Cyclone Slayer", "ARC Witch", "Archer", "Ice", "Toxic Rain" }

StyleSkills ==
    { << >>, << "Shot" >>, << "Double Strike" >>,
      << "Summon Skeletons", "Raise Zombie" >> }

StyleDescriptions == { "", "elbow", "A spell caster", "Strike with a wand" }

SpecialtyTags ==
    { << >>, << "League Starter" >>, << "Boss", "Tank" >>, << "MAPPING" >> }

SpecialtyDescriptions ==
    { "", "fast and tanky", "An All-Around build", "bossing", "Breakfast",
      "nothing of note" }

\* texts: the cases of test_validation.py, tokens in another case and
\* inside a word, and brace counts on both sides of 5%
GarbageTexts ==
    { NoneStr, Str(""), Str(" "),
      Str("Normal build description text"),
      Str("{\"__typename\": \"Build\", \"edges\": [...]}"),
      Str("This build focuses on Cyclone with high DPS"),
      Str("__APOLLO_STATE__ graphql edges node"),
      Str("{\"apolloState\": {\"data\": {}}}"),
      Str("see the GraphQL endpoint for details"),
      Str("my__typenamed value"),
      Str("__apollo_state__"),
      Str("\"Edges\": more"),
      Str("edges node cursor"),
      Str("use {0} as a placeholder"),
      Str("nineteen chars {ok}"),
      Str("exactly twenty char{"),
      Str("nineteen characte }"),
      Str("a \"quoted\": value of forty characters.."),
      Str("twenty-one characte\":"),
      Str("{}") }

CallDetectCombatStyle ==
    /\ npc = "idle"
    /\ \E n \in StyleNames, sk \in StyleSkills, d \in StyleDescriptions :
         /\ targs' = [name |-> n, skills |-> sk, description |-> d]
         /\ tret' = detect_combat_style(n, sk, d)
    /\ tfn' = "detect_combat_style"
    /\ npc' = "returned"
    /\ UNCHANGED recVars
    /\ UNCHANGED notNormVars

CallDetectSpecialty ==
    /\ npc = "idle"
    /\ \E bt \in SpecialtyTags, d \in SpecialtyDescriptions :
         /\ targs' = [build_types |-> bt, description |-> d]
         /\ tret' = detect_specialty(bt, d)
    /\ tfn' = "detect_specialty"
    /\ npc' = "returned"
    /\ UNCHANGED recVars
    /\ UNCHANGED notNormVars

CallIsGarbageText ==
    /\ npc = "idle"
    /\ \E t \in GarbageTexts :
         /\ targs' = [text |-> t]
         /\ tret' = is_garbage_text(TextOf(t))
    /\ tfn' = "is_garbage_text"
    /\ npc' = "returned"
    /\ UNCHANGED recVars
    /\ UNCHANGED notNormVars

\* rows of the builds table as _get_builds_from_db returns them: a build
\* whose only long skill is the fourth, one whose two skills and
\* ascendancy are all long, one without skills, one with a two-letter
\* skill and a three-letter ascendancy
ForumBuilds ==
    { [id |-> 1, skills_en |-> << "Arc", "Zap", "Orb", "Cyclone" >>,
       ascendancy_en |-> "Elementalist"],
      [id |-> 2, skills_en |-> << "Cyclone", "Bladestorm" >>,
       ascendancy_en |-> "Slayer"],
      [id |-> 3, skills_en |-> << >>, ascendancy_en |-> "Necromancer"],
      [id |-> 4, skills_en |-> << "RF" >>, ascendancy_en |-> "Jug"] }

\* lists of at most MaxBuilds rows with different ids
ForumBuildLists ==
    { s \in SeqsUpTo(ForumBuilds, MaxBuilds) :
         \A i, j \in 1..Len(s) : i # j => s[i].id # s[j].id }

\* title and body of a post
PostTexts ==
    { "Is ARC or RF any good this league? Jug and Zap feel weak",
      "My Cyclone Slayer with Bladestorm melts bosses",
      "Necromancer or Elementalist for a starter?",
      "Trade prices are crazy" }

CallMatchBuild ==
    /\ npc = "idle"
    /\ \E t \in PostTexts, bs \in ForumBuildLists :
         /\ targs' = [post_text |-> t, builds |-> bs]
         /\ tret' = match_build(t, bs)
    /\ tfn' = "_match_build"
    /\ npc' = "returned"
    /\ UNCHANGED recVars
    /\ UNCHANGED notNormVars

(* ------------------------ extract_build_info_via_llm ------------------- *)
\* page texts: None, empty, 10 and 49 characters, 50 characters, 55
\* characters of which 45 are not padding, and longer texts
PageTexts ==
    { NoneStr, Str(""), Str("short text"),
      Str("0123456789012345678901234567890123456789012345678"),
      Str("01234567890123456789012345678901234567890123456789"),
      Str("     012345678901234567890123456789012345678901234     "),
      Str("Cyclone Slayer guide. This build spins through maps with Starforge."),
      Str("   Arc Witch: a caster build that chains lightning between packs.   ") }

\* what the 'which claude' run did
WhichOutcomes == { "found", "not_found", "raise" }

\* an answer in the format the prompt asks for (llm_extractor.py:147-168)
ComposeOutput(s) ==
    "DESCRIPTION:\n" \o s.desc \o "\n\nPROS:\n" \o s.pros \o "\n\nCONS:\n" \o s.cons
    \o "\n\nCORE_EQUIPMENT:\n"
    \o Join([i \in 1..Len(s.items) |-> "- " \o s.items[i]], "\n")
    \o "\n\nCLASS: " \o s.class \o "\nASCENDANCY: " \o s.asc

\* the sections of such answers: each of the three free-text fields clean
\* or carrying a signature token
SectionSamples ==
    { [desc |-> d, pros |-> p, cons |-> "- Expensive", items |-> it,
       class |-> "Duelist", asc |-> "Slayer"] :
        d \in { "A cyclone melee build.", "{\"__typename\": \"x\"}" },
        p \in { "- Fast", "- graphql cache" },
        it \in { << "Starforge", "Abyssus" >>, << "__NEXT_DATA__ blob" >> } }

\* what the model wrote to stdout
LlmOutputs ==
    { "", "  \n",
      "I could not find a build guide in this text.",
      "DESCRIPTION:\nA cyclone melee build.\n\nPROS:\n- Fast\n\nCONS:\n- Expensive\n\nCORE_EQUIPMENT:\n- Starforge\n* Abyssus\n\nCLASS: Duelist\nASCENDANCY: Slayer\n",
      "DESCRIPTION:\n{\"__typename\": \"x\"}\nPROS:\n- good\nCORE_EQUIPMENT:\n- graphql\nCLASS: Witch",
      "DESCRIPTION: on the header line\nCLASS:\nASCENDANCY:   ",
      "DESCRIPTION:\nA cyclone melee build.\n\nCLASS:\nASCENDANCY: Slayer",
      "DESCRIPTION:\n\nPROS:\n- Fast\n\nCLASS: Duelist" }
    \cup { ComposeOutput(s) : s \in SectionSamples }

ExtractCliOutcomes ==
    { [kind |-> "timeout", returncode |-> 0, stdout |-> ""],
      [kind |-> "raise",   returncode |-> 0, stdout |-> ""] }
    \cup
    { [kind |-> "exit", returncode |-> rc, stdout |-> o] :
         rc \in {0, 1}, o \in LlmOutputs }

NoExtractCli == [kind |-> "none", returncode |-> 0, stdout |-> ""]

ExtractInit ==
    /\ epc = "idle"
    /\ page_text = NoneStr
    /\ ewhich = "none"
    /\ ecli = NoExtractCli
    /\ ecalls = 0
    /\ output = NoneStr
    /\ draft = EmptyDraft

\* the text is refused: the empty draft is returned at once
ExtractTooShort ==
    /\ epc = "idle"
    /\ \E t \in PageTexts :
         /\ TooShort(t)
         /\ page_text' = t
    /\ draft' = parse_llm_output("")
    /\ epc' = "returned"
    /\ UNCHANGED << ewhich, ecli, ecalls, output >>
    /\ UNCHANGED notExtractVars

\* the prompt is built and _call_claude_cli starts the 'claude' run
ExtractCall ==
    /\ epc = "idle"
    /\ \E t \in PageTexts :
         /\ ~TooShort(t)
         /\ page_text' = t
    /\ \E w \in WhichOutcomes : ewhich' = w
    /\ ecalls' = ecalls + 1
    /\ epc' = "calling"
    /\ UNCHANGED << ecli, output, draft >>
    /\ UNCHANGED notExtractVars

\* the run ends; _call_claude_cli returns and the output is parsed
ExtractReturn ==
    /\ epc = "calling"
    /\ \E c \in ExtractCliOutcomes :
         /\ ecli' = c
         /\ output' = call_claude_cli(c)
         /\ draft' = IF call_claude_cli(c).none \/ Len(call_claude_cli(c).val) = 0
                     THEN parse_llm_output("")
                     ELSE parse_llm_output(call_claude_cli(c).val)
    /\ epc' = "returned"
    /\ UNCHANGED << page_text, ewhich, ecalls >>
    /\ UNCHANGED notExtractVars

(* ------------------ the entry points and their cache ------------------- *)
CachedSites == { "maxroll", "mobalytics" }

\* records of a result list
CacheRecords ==
    { [source_id |-> "a", skills_en |-> NoneStr, favorites |-> 0],
      [source_id |-> "b", skills_en |-> Str("[\"Arc\"]"), favorites |-> 12] }

\* the result lists of a scrape
ResultLists == UNION { [1..n -> CacheRecords] : n \in 0..MaxCached }

CacheInit ==
    /\ cpc = "idle"
    /\ csite = "none"
    /\ use_cache = FALSE
    /\ cfiles = [st \in CachedSites |-> NoFile]
    /\ cfileAtCall = NoFile
    /\ cfetches = 0
    /\ cresult = << >>
    /\ cwritten = [st \in CachedSites |-> << >>]
    /\ cruns = 0

\* a run that finds its cache file returns the builds of the file
CacheFirstReturn ==
    /\ cpc \in {"idle", "returned", "raised"}
    /\ cruns < MaxRuns
    /\ \E st \in CachedSites, use \in BOOLEAN :
         /\ UsesCache(use, cfiles[st])
         /\ csite' = st
         /\ use_cache' = use
         /\ cfileAtCall' = cfiles[st]
         /\ cresult' = load_cache(cfiles[st]).builds
    /\ cfetches' = 0
    /\ cruns' = cruns + 1
    /\ cpc' = "returned"
    /\ UNCHANGED << cfiles, cwritten >>
    /\ UNCHANGED notCacheVars

\* a run without a cache file, or told not to use it, starts the browser
FetchBegin ==
    /\ cpc \in {"idle", "returned", "raised"}
    /\ cruns < MaxRuns
    /\ \E st \in CachedSites, use \in BOOLEAN :
         /\ ~UsesCache(use, cfiles[st])
         /\ csite' = st
         /\ use_cache' = use
         /\ cfileAtCall' = cfiles[st]
    /\ cfetches' = 0
    /\ cresult' = << >>
    /\ cruns' = cruns + 1
    /\ cpc' = "fetching"
    /\ UNCHANGED << cfiles, cwritten >>
    /\ UNCHANGED notCacheVars

\* the listing and the detail pages are fetched, the cache file is written
\* (by maxroll only for a non-empty list) and the list is returned
FetchReturn ==
    /\ cpc = "fetching"
    /\ \E data \in ResultLists :
         /\ cresult' = data
         /\ cfetches' = 1 + Len(data)
         /\ IF csite = "mobalytics" \/ Len(data) > 0
            THEN /\ cfiles' = [cfiles EXCEPT ![csite] = save_cache(data, cruns)]
                 /\ cwritten' = [cwritten EXCEPT ![csite] = data]
            ELSE UNCHANGED << cfiles, cwritten >>
    /\ cpc' = "returned"
    /\ UNCHANGED << csite, use_cache, cfileAtCall, cruns >>
    /\ UNCHANGED notCacheVars

\* the browser cannot be started: the run ends with the exception
FetchRaise ==
    /\ cpc = "fetching"
    /\ cpc' = "raised"
    /\ UNCHANGED << csite, use_cache, cfiles, cfileAtCall, cfetches, cresult,
                    cwritten, cruns >>
    /\ UNCHANGED notCacheVars

(* ------------------- listing, then the detail loop --------------------- *)
\* page caps: scrape_maxroll passes 1 (test mode) or None
PageCaps == { NoCap } \cup { Cap(n) : n \in 1..MaxPages }

\* hits of a listing page of maxroll: two guides whose permalinks end in
\* the same segment, a third guide known by its permalink key, two hits of
\* the other game, a hit without permalink
MaxrollHits ==
    { [game |-> Str("poe"), post_game |-> NoneStr,
       post_permalink |-> Str("/build-guides/arc"), permalink |-> NoneStr],
      [game |-> Str("poe"), post_game |-> NoneStr,
       post_permalink |-> Str("/guides/arc"), permalink |-> NoneStr],
      [game |-> NoneStr, post_game |-> NoneStr,
       post_permalink |-> NoneStr, permalink |-> Str("/build-guides/rf")],
      [game |-> NoneStr, post_game |-> Str("PoE2"),
       post_permalink |-> Str("/build-guides/bow"), permalink |-> NoneStr],
      [game |-> NoneStr, post_game |-> NoneStr,
       post_permalink |-> Str("/poe2/build-guides/arc"), permalink |-> NoneStr],
      [game |-> Str("poe"), post_game |-> NoneStr,
       post_permalink |-> NoneStr, permalink |-> NoneStr] }

\* objects captured on a tab of mobalytics: two with an id, one known by
\* a slug equal to the id of the first, one without name, one of an old
\* patch
ListedRaws ==
    { [name |-> nm, title |-> NoneStr, patchVersion |-> pv, patch |-> NoneStr,
       mainSkillName |-> NoneStr, skillGems |-> << >>, tags |-> << >>,
       id |-> ids[1], slug |-> ids[2], description |-> NoneStr,
       summary |-> NoneStr] :
        nm \in { Str("Arc Witch") }, pv \in { Str("3.27.2") },
        ids \in { << Str("b1"), NoneStr >>, << Str("b2"), NoneStr >>,
                  << NoneStr, Str("b1") >> } }
    \cup
    { [name |-> NoneStr, title |-> NoneStr, patchVersion |-> Str("3.27.2"),
       patch |-> NoneStr, mainSkillName |-> NoneStr, skillGems |-> << >>,
       tags |-> << >>, id |-> Str("b3"), slug |-> NoneStr,
       description |-> NoneStr, summary |-> NoneStr],
      [name |-> Str("Arc Witch"), title |-> NoneStr, patchVersion |-> Str("3.25.1"),
       patch |-> NoneStr, mainSkillName |-> NoneStr, skillGems |-> << >>,
       tags |-> << >>, id |-> Str("b4"), slug |-> NoneStr,
       description |-> NoneStr, summary |-> NoneStr] }

\* mobalytics.py:14  TABS, in the order of the loop
TabSeq == << "verified", "creator", "community" >>

ListInit ==
    /\ lpc = "idle"
    /\ lsite = "none"
    /\ max_pages = NoCap
    /\ current_page = 0
    /\ tabs_done = 0
    /\ seen_ids = {}
    /\ listed = << >>
    /\ ldups = {}
    /\ lstop = "none"
    /\ lpos = 0
    /\ llog = << >>
    /\ lresult = << >>

\* scrape_maxroll or scrape_mobalytics starts scraping (no cache is used)
ListBegin ==
    /\ lpc = "idle"
    /\ \E s \in { "maxroll", "mobalytics" } :
       \E cap \in (IF s = "maxroll" THEN PageCaps ELSE { NoCap }) :
         /\ lsite' = s
         /\ max_pages' = cap
         /\ current_page' = IF s = "maxroll" THEN 1 ELSE 0
    /\ lpc' = "listing"
    /\ UNCHANGED << tabs_done, seen_ids, listed, ldups, lstop, lpos, llog, lresult >>
    /\ UNCHANGED notListVars

\* maxroll._scrape_build_list: the cap check at the head of the loop ends it
ListCapReached ==
    /\ lpc = "listing"
    /\ lsite = "maxroll"
    /\ CapReached(max_pages, current_page)
    /\ lstop' = "cap"
    /\ lpc' = "detail"
    /\ UNCHANGED << lsite, max_pages, current_page, tabs_done, seen_ids, listed,
                    ldups, lpos, llog, lresult >>
    /\ UNCHANGED notListVars

\* maxroll._scrape_build_list: one iteration of the page loop, from
\* page.goto to the next-page check (a failing check counts as no link)
ListPageMaxroll ==
    /\ lpc = "listing"
    /\ lsite = "maxroll"
    /\ ~CapReached(max_pages, current_page)
    /\ current_page <= MaxPages
    /\ \E load \in { "fail", "nodata", "data" } :
       \E hits \in (IF load = "data" THEN SeqsUpTo(MaxrollHits, MaxHits) ELSE { << >> }) :
       \E has_next \in (IF load = "data" /\ Len(hits) > 0 THEN BOOLEAN ELSE { FALSE }) :
         LET f == poe1_builds(hits, seen_ids)
             stop == IF load = "fail" THEN "load_failed"
                     ELSE IF load = "nodata" THEN "no_data"
                     ELSE IF Len(hits) = 0 THEN "no_builds"
                     ELSE IF ~has_next THEN "no_next"
                     ELSE "none"
         IN  /\ llog' = Append(llog, [kind |-> "list", page |-> current_page, id |-> ""])
             /\ seen_ids' = f.seen
             /\ listed' = listed \o f.builds
             /\ ldups' = ldups \cup f.dups
             /\ lstop' = stop
             /\ current_page' = IF stop = "none" THEN current_page + 1 ELSE current_page
             /\ lpc' = IF stop = "none" THEN "listing" ELSE "detail"
    /\ UNCHANGED << lsite, max_pages, tabs_done, lpos, lresult >>
    /\ UNCHANGED notListVars

\* scrape_mobalytics, phase 1: one iteration of  for tab in TABS ; an
\* exception of scrape_tab is caught and the loop goes on. all_builds is
\* also the list the run returns.
ListTabMobalytics ==
    /\ lpc = "listing"
    /\ lsite = "mobalytics"
    /\ tabs_done < Len(TabSeq)
    /\ \E raised \in BOOLEAN :
       \E captured_raw \in (IF raised THEN { << >> } ELSE SeqsUpTo(ListedRaws, MaxHits)) :
         LET tab == TabSeq[tabs_done + 1]
             t == scrape_tab_builds(captured_raw, tab, {})
             m == AppendUnseen(t.builds, seen_ids)
         IN  /\ llog' = Append(llog, [kind |-> "list", page |-> tabs_done + 1, id |-> tab])
             /\ seen_ids' = m.seen
             /\ listed' = listed \o m.builds
             /\ lresult' = listed \o m.builds
             /\ ldups' = ldups \cup t.dups \cup m.dups
    /\ tabs_done' = tabs_done + 1
    /\ lpc' = IF tabs_done + 1 = Len(TabSeq) THEN "detail" ELSE "listing"
    /\ UNCHANGED << lsite, max_pages, current_page, lstop, lpos >>
    /\ UNCHANGED notListVars

\* scrape_maxroll: one iteration of the detail loop
ListDetailMaxroll ==
    /\ lpc = "detail"
    /\ lsite = "maxroll"
    /\ lpos < Len(listed)
    /\ \E fetch \in { "ok", "fail" } :
       \E parse \in (IF fetch = "ok" THEN { "ok", "fail" } ELSE { "ok" }) :
       \E norm \in (IF fetch = "ok" /\ parse = "ok"
                    THEN { "ok", "exception", "filtered" } ELSE { "ok" }) :
         LET res == ItemStep("maxroll", fetch, parse, norm)
             permalink == listed[lpos + 1]
         IN  /\ llog' = Append(llog, [kind |-> "detail", page |-> lpos + 1,
                                      id |-> permalink])
             /\ lresult' = IF res.append
                           THEN Append(lresult, maxroll_source_id(permalink))
                           ELSE lresult
             /\ lpc' = IF res.raised THEN "returned" ELSE "detail"
    /\ lpos' = lpos + 1
    /\ UNCHANGED << lsite, max_pages, current_page, tabs_done, seen_ids, listed,
                    ldups, lstop >>
    /\ UNCHANGED notListVars

\* scrape_mobalytics, phase 2: one iteration of the detail loop; the build
\* comes back as the same dict
ListDetailMobalytics ==
    /\ lpc = "detail"
    /\ lsite = "mobalytics"
    /\ lpos < Len(listed)
    /\ \E fetch \in { "ok", "fail" } :
       \E parse \in (IF fetch = "ok" THEN { "ok", "fail" } ELSE { "ok" }) :
         LET res == ItemStep("mobalytics", fetch, parse, "ok")
         IN  /\ llog' = Append(llog, [kind |-> "detail", page |-> lpos + 1,
                                      id |-> listed[lpos + 1]])
             /\ lpc' = IF res.raised THEN "returned" ELSE "detail"
    /\ lpos' = lpos + 1
    /\ UNCHANGED << lsite, max_pages, current_page, tabs_done, seen_ids, listed,
                    ldups, lstop, lresult >>
    /\ UNCHANGED notListVars

\* the detail loop is over: the entry point returns its list
ListReturn ==
    /\ lpc = "detail"
    /\ lpos = Len(listed)
    /\ lpc' = "returned"
    /\ UNCHANGED << lsite, max_pages, current_page, tabs_done, seen_ids, listed,
                    ldups, lstop, lpos, llog, lresult >>
    /\ UNCHANGED notListVars

(* ---------------------- persisting and translating --------------------- *)
\* the keys of the rows
TransKeys == { << "maxroll", "arc-witch" >>, << "mobalytics", "1201" >> }

\* accepted records, as the normalizers build them: the translated
\* columns they carry are None
TransRecords ==
    { [source |-> "maxroll", source_id |-> "arc-witch",
       name_en |-> Str("Arc Witch"), class_en |-> Str("Witch"),
       ascendancy_en |-> a, skills_en |-> s,
       description_en |-> Str("Lightning caster"),
       pros_cons_en |-> NoneStr, core_equipment_en |-> NoneStr,
       pros_cons_ja |-> NoneStr, core_equipment_ja |-> NoneStr] :
         a \in { NoneStr, Str("Elementalist") },
         s \in { NoneStr, Str("[]"), Str(json_dumps(<< "Arc", "Zap" >>)) } }
    \cup
    { [source |-> "mobalytics", source_id |-> "1201",
       name_en |-> Str("Cyclone"), class_en |-> NoneStr,
       ascendancy_en |-> NoneStr, skills_en |-> NoneStr,
       description_en |-> Str(""),
       pros_cons_en |-> Str("Pros:\n- Fast"),
       core_equipment_en |-> Str("Headhunter"),
       pros_cons_ja |-> NoneStr, core_equipment_ja |-> NoneStr] }

\* what one run of the translation CLI can do
TranslateCliOutcomes ==
    { [kind |-> "exit", returncode |-> 0, stdout |-> " yaku\n"],
      [kind |-> "exit", returncode |-> 0, stdout |-> " \n"],
      [kind |-> "exit", returncode |-> 1, stdout |-> "yaku"],
      [kind |-> "timeout", returncode |-> 0, stdout |-> ""],
      [kind |-> "raise", returncode |-> 0, stdout |-> ""] }

NoSaved == [none |-> TRUE, key |-> << "", "" >>, replaced |-> "absent"]
NoCall == [state |-> "none", log |-> << >>, value |-> ""]
NoFetched == [found |-> FALSE]

TransInit ==
    /\ tpc = "idle"
    /\ tbuilds = EmptyBag
    /\ tsaved = NoSaved
    /\ tkey = << "", "" >>
    /\ trow = NoFetched
    /\ ttodo = << >>
    /\ tidx = 0
    /\ tdone = NoDone
    /\ tt = NoCall
    /\ tok = "none"

\* base.py:242-264  save_builds_to_db persists an accepted record, between
\* two runs of the translator
Persist ==
    /\ tpc \in { "idle", "returned" }
    /\ \E bb \in TransRecords :
         LET old == SelectRow(tbuilds, KeyOf(bb))
         IN  /\ tbuilds' = PersistRecord(tbuilds, bb)
             /\ tsaved' = [none |-> FALSE, key |-> KeyOf(bb),
                           replaced |-> IF old.found
                                        THEN old.row.translation_status
                                        ELSE "absent"]
    /\ tpc' = "idle"
    /\ tkey' = << "", "" >>
    /\ trow' = NoFetched
    /\ ttodo' = << >>
    /\ tidx' = 0
    /\ tdone' = NoDone
    /\ tt' = NoCall
    /\ tok' = "none"
    /\ UNCHANGED notTransVars

\* claude_cli.py:149-164  translate_build is called for a row that is not
\* in the table: False
TranslateNoRow ==
    /\ tpc \in { "idle", "returned" }
    /\ \E k \in TransKeys :
         /\ ~SelectRow(tbuilds, k).found
         /\ tkey' = k
    /\ tpc' = "returned"
    /\ tok' = "False"
    /\ trow' = NoFetched
    /\ ttodo' = << >>
    /\ tidx' = 0
    /\ tdone' = NoDone
    /\ tt' = NoCall
    /\ tsaved' = NoSaved
    /\ UNCHANGED tbuilds
    /\ UNCHANGED notTransVars

\* claude_cli.py:149-166  translate_build fetches the row
TranslateBegin ==
    /\ tpc \in { "idle", "returned" }
    /\ \E k \in TransKeys :
         /\ SelectRow(tbuilds, k).found
         /\ tkey' = k
         /\ trow' = SelectRow(tbuilds, k)
         /\ ttodo' = TodoOf(SelectRow(tbuilds, k).row)
    /\ tpc' = "translating"
    /\ tok' = "none"
    /\ tidx' = 0
    /\ tdone' = NoDone
    /\ tt' = NoCall
    /\ tsaved' = NoSaved
    /\ UNCHANGED tbuilds
    /\ UNCHANGED notTransVars

\* claude_cli.py:100-135  one turn of the retry loop of translate_text,
\* and what translate_build does when the call returns or raises
\* (claude_cli.py:166-235)
TranslateAttempt ==
    /\ tpc = "translating"
    /\ \E c \in TranslateCliOutcomes :
         LET log == IF tt.state = "running" THEN tt.log ELSE << >>
             attempt == Len(log) + 1
             slot == ttodo[tidx + 1]
             cur == SelectRow(tbuilds, tkey).row
         IN  IF AttemptReturns(c)
             THEN LET translated == Strip(c.stdout)
                      done == DoneWith(tdone, slot, translated)
                  IN  /\ tt' = [state |-> "returned", log |-> Append(log, c),
                                value |-> translated]
                      /\ tdone' = done
                      /\ tidx' = tidx + 1
                      /\ IF tidx + 1 = Len(ttodo)
                         THEN /\ tbuilds' = UpdateRow(tbuilds, tkey,
                                               CompletedRow(cur, trow.row, done))
                              /\ tpc' = "returned"
                              /\ tok' = "True"
                         ELSE UNCHANGED << tbuilds, tpc, tok >>
             ELSE IF attempt = max_retries
             THEN /\ tt' = [state |-> "raised", log |-> Append(log, c),
                            value |-> ""]
                  /\ tbuilds' = UpdateRow(tbuilds, tkey, FailedRow(cur, tdone))
                  /\ tpc' = "returned"
                  /\ tok' = "False"
                  /\ UNCHANGED << tdone, tidx >>
             ELSE /\ tt' = [state |-> "running", log |-> Append(log, c),
                            value |-> ""]
                  /\ UNCHANGED << tbuilds, tpc, tok, tdone, tidx >>
    /\ UNCHANGED << tsaved, tkey, trow, ttodo >>
    /\ UNCHANGED notTransVars

(* --------------------------- specifications ---------------------------- *)
Init ==
    /\ SaveInit /\ ScrapeInit /\ NormInit /\ ExtractInit /\ CacheInit
    /\ ListInit /\ TransInit

Next ==
    \/ SaveBegin
    \/ ConnectFail
    \/ ProcessRecord
    \/ Commit
    \/ CommitFail
    \/ Close

Spec == Init /\ [][Next]_vars

ScrapeNext ==
    \/ ScrapeBegin
    \/ ScrapeItem
    \/ ScrapeFinish

SpecScrape == Init /\ [][ScrapeNext]_vars

NormNext ==
    \/ NormalizeMaxroll
    \/ NormalizeMobalytics
    \/ DetailMobalytics
    \/ BuildFromTranscript
    \/ CallDetectCombatStyle
    \/ CallDetectSpecialty
    \/ CallIsGarbageText
    \/ CallMatchBuild

SpecNormalize == Init /\ [][NormNext]_vars

ExtractNext ==
    \/ ExtractTooShort
    \/ ExtractCall
    \/ ExtractReturn

SpecExtract == Init /\ [][ExtractNext]_vars

CacheNext ==
    \/ CacheFirstReturn
    \/ FetchBegin
    \/ FetchReturn
    \/ FetchRaise

SpecCache == Init /\ [][CacheNext]_vars

ListNext ==
    \/ ListBegin
    \/ ListCapReached
    \/ ListPageMaxroll
    \/ ListTabMobalytics
    \/ ListDetailMaxroll
    \/ ListDetailMobalytics
    \/ ListReturn

\* every await of the entry points completes or times out, so a run that
\* can take a step takes one
SpecListing == Init /\ [][ListNext]_vars /\ WF_vars(ListNext)

TransNext ==
    \/ Persist
    \/ TranslateNoRow
    \/ TranslateBegin
    \/ TranslateAttempt

SpecTranslate == Init /\ [][TransNext]_vars

(* ------------------------------ properties ----------------------------- *)
\* a text the garbage detector must flag, spelled out on the features
Flagged(t) == t.none \/ t.len = 0 \/ t.sig \/ 20 * t.json > t.len

\* an iteration has run and rawB, b and decision describe it
Processed == decision # "none"

ShortDesc(r) == r.description_en.none \/ r.description_en.len < MinDescLen

PassesTwoLayers(r) ==
    /\ ~ShortDesc(r) /\ ~Flagged(r.description_en)
    /\ ~Flagged(r.pros_cons_en)
    /\ ~Flagged(r.core_equipment_en)

\* C1: a record is written to the store only if its description has at
\* least 50 characters and is not garbage, its pros_cons and core_equipment
\* are non-empty and not garbage, and the semantic check did not return an
\* explicit invalid verdict; no other record changes the rows of the
\* connection.
C1_PersistOnlyValid ==
    [][ (pc = "loop" /\ (txn' # txn \/ saved_count' # saved_count \/ decision' = "saved"))
        => /\ decision' = "saved"
           /\ PassesTwoLayers(rawB')
           /\ validation_result'.valid # "false"
           /\ RowOf(rawB') \in BagToSet(txn') ]_vars

C1_Witness ==
    /\ decision = "saved"
    /\ conn = "open"
    /\ RowOf(rawB) \in BagToSet(txn)
    /\ RowOf(rawB) \notin BagToSet(storeAtCall)

\* the case C2 and C3 are about: clean description of at least 50
\* characters, clean non-empty core_equipment, flagged pros_cons
C2_Case ==
    /\ Processed
    /\ ~ShortDesc(rawB) /\ ~Flagged(rawB.description_en)
    /\ ~Flagged(rawB.core_equipment_en)
    /\ Flagged(rawB.pros_cons_en)

\* C2 as stated: such a record is not rejected by the validation layers
\* and goes on with pros_cons set to None.
C2_Original ==
    C2_Case => (decision \notin {"skip", "garbage"} /\ b.pros_cons_en = None)

\* C2 amended: such a record has its pros_cons set to None by the pattern
\* layer and is then rejected as missing a required field: it is counted
\* as skipped, is not sent to the semantic layer and is not written.
C2_SanitizedThenRejected ==
    C2_Case =>
        /\ decision = "skip"
        /\ b.pros_cons_en = None
        /\ b.core_equipment_en = rawB.core_equipment_en
        /\ skip_reason = << "pros_cons_en_empty" >>
        /\ ~semCalled
        /\ RowOf(b) \notin BagToSet(txn)

C2_Witness ==
    /\ C2_Case
    /\ rawB.pros_cons_en.sig
    /\ decision = "skip"
    /\ skipped_count > 0

\* C3: once the pattern layer has sanitized pros_cons and core_equipment, a
\* record with either field empty (nulled by sanitization or never
\* populated) is rejected as missing that required field, and is neither
\* sent to the semantic layer nor written.
C3_MissingRequiredField ==
    (Processed /\ ~Flagged(rawB.description_en)
       /\ (Flagged(rawB.pros_cons_en) \/ Flagged(rawB.core_equipment_en)))
    => /\ decision = "skip"
       /\ (Flagged(rawB.pros_cons_en) =>
              /\ b.pros_cons_en = None
              /\ \E i \in 1..Len(skip_reason) : skip_reason[i] = "pros_cons_en_empty")
       /\ (Flagged(rawB.core_equipment_en) =>
              /\ b.core_equipment_en = None
              /\ \E i \in 1..Len(skip_reason) : skip_reason[i] = "core_equipment_en_empty")
       /\ ~semCalled
       /\ cli = NoCli
       /\ RowOf(rawB) \notin BagToSet(txn)
       /\ RowOf(b) \notin BagToSet(txn)

C3_Witness ==
    /\ Processed
    /\ ~ShortDesc(rawB) /\ ~Flagged(rawB.description_en)
    /\ rawB.core_equipment_en.sig
    /\ ~Flagged(rawB.pros_cons_en)
    /\ b.core_equipment_en = None
    /\ decision = "skip"

\* C4 as stated: a record whose description is absent or shorter than 50
\* characters is rejected with the one reason "description too short", the
\* pattern layer is not run on it: nothing is reported as garbage and its
\* fields are as they were passed in.
C4_ShortCircuit ==
    (Processed /\ ShortDesc(rawB))
    => /\ decision = "skip"
       /\ skip_reason = << "description_en_short" >>
       /\ printed = {"SKIP"}
       /\ b = rawB

\* C5: the semantic check is never invoked for a record whose description
\* is shorter than 50 characters, whatever its other fields contain.
C5_NoSemanticForShort ==
    (Processed /\ ShortDesc(rawB))
    => /\ ~semCalled
       /\ cli = NoCli
       /\ validation_result = NoVerdict
       /\ decision \in {"garbage", "skip"}

C5_Witness ==
    /\ Processed
    /\ ~rawB.description_en.none
    /\ ShortDesc(rawB)
    /\ ~Flagged(rawB.description_en)
    /\ ~Flagged(rawB.pros_cons_en)
    /\ ~Flagged(rawB.core_equipment_en)
    /\ ~semCalled

\* the call to the backing service failed
CliFailed(c) ==
    \/ c.kind \in {"timeout", "raise"}
    \/ c.kind = "exit" /\ c.returncode # 0
    \/ c.kind = "exit" /\ c.stdout \in {"nomatch", "malformed"}

\* C6 as stated: whenever the call to the backing service fails (timeout,
\* non-zero exit, exception, no parsable verdict) the semantic check
\* returns a valid verdict and the record is not rejected by it.
C6_FailOpen ==
    (semCalled /\ CliFailed(cli))
    => /\ validation_result.valid # "false"
       /\ decision # "semantic"

\* C7: the rows of the connection and the committed rows hold at most one
\* row per (source, source_id); right after a record is written there is
\* exactly one row with its key and that row carries the values just
\* written, also when a row with that key was stored before.
C7_IdempotentUpsert ==
    /\ \A k \in Keys : RowsWithKey(txn, k) <= 1 /\ RowsWithKey(store, k) <= 1
    /\ (decision = "saved" /\ conn = "open")
          => /\ RowsWithKey(txn, KeyOf(b)) = 1
             /\ RowOf(b) \in BagToSet(txn)
    /\ (decision = "saved" /\ pc = "committed")
          => /\ RowsWithKey(store, KeyOf(b)) = 1
             /\ RowOf(b) \in BagToSet(store)

C7_Witness ==
    /\ decision = "saved"
    /\ pc = "committed"
    /\ RowOf(b) \in BagToSet(store)
    /\ \E old \in BagToSet(storeAtCall) :
          /\ KeyOf(old) = KeyOf(b)
          /\ old.description_en # b.description_en

\* C8: when save_builds_to_db ends with an exception the committed rows are
\* those from before the call, also when records of the batch had been
\* inserted earlier in the loop; the committed rows change only by the
\* commit that follows the whole loop; and no exit leaves the connection
\* of the call open.
C8_AllOrNothing ==
    /\ pc \in {"raising", "raised"} => store = storeAtCall
    /\ pc = "loop" => store = storeAtCall
    /\ pc \in {"committed", "returned"} => idx = nRecords
    /\ pc \in {"returned", "raised"} => conn # "open"
    /\ pc = "raised" /\ conn = "closed" => txn = EmptyTable

C8_Witness ==
    /\ pc = "raised"
    /\ conn = "closed"
    /\ decision = "error"
    /\ saved_count > 0
    /\ store = storeAtCall

\* the items the running entry point returns, read off the log: mobalytics
\* returns every listed build, enriched or not; the others return the items
\* that were fetched, parsed and normalized
Kept(s, log) ==
    SelectSeq([i \in 1..Len(log) |-> i],
              LAMBDA i : s = "mobalytics" \/ log[i].outcome = "ok")

\* C9: a failure while fetching, parsing or normalizing one item affects
\* only that item: no run ends with an exception, and a finished run has
\* gone through every listed item and returns exactly the items that did
\* not fail.
C9_FailureIsolation ==
    /\ spc # "raised"
    /\ spc = "done" =>
          /\ pos = nItems
          /\ Len(itemLog) = nItems
          /\ \A i \in 1..Len(itemLog) : itemLog[i].item = i
          /\ all_builds = Kept(site, itemLog)

C9_Witness ==
    /\ spc = "done"
    /\ site = "maxroll"
    /\ Len(itemLog) >= 3
    /\ itemLog[1].outcome = "fetch_failed"
    /\ itemLog[2].outcome = "normalize_exception"
    /\ itemLog[3].outcome = "ok"
    /\ all_builds = << 3 >>

\* C10 as stated: an item whose first detail fetch failed is fetched a
\* second time, and no item is fetched more than twice.
C10_RetryOnce ==
    site \in {"maxroll", "mobalytics"} =>
        \A i \in 1..Len(itemLog) :
            /\ itemLog[i].gotoCalls <= 2
            /\ itemLog[i].firstFetch = "fail" => itemLog[i].gotoCalls = 2

\* a normalizer has run and returned a record
Produced == npc # "idle" /\ ~normalized.none

\* the list-shaped fields of a normalized record
ListFieldsOf(r) == { r.skills_en, r.build_types, r.playstyle, r.activities, r.damage_types }

\* a JSON array string with at least one element
NonEmptyArrayString(s) ==
    /\ Len(s) > 2
    /\ SubSeq(s, 1, 1) = "["
    /\ SubSeq(s, Len(s), Len(s)) = "]"

\* C11 as stated: each list-shaped field of every normalized record is
\* None or the JSON array string of a non-empty list, never "[]".
C11_ListFieldsNeverEmptyArray ==
    Produced =>
        \A f \in ListFieldsOf(normalized) :
            f.none \/ (f.val # "[]" /\ NonEmptyArrayString(f.val))

FiveStyles == { "melee", "ranged", "caster", "summoner", "hybrid" }

\* C12: the combat_style of every record a normalizer returns, and of every
\* record after its detail page was processed, is one of melee, ranged,
\* caster, summoner, hybrid, also when the raw dict carries a combat_style.
C12_CombatStyleOneOfFive ==
    Produced => normalized.combat_style \in FiveStyles

C12_Witness ==
    /\ Produced
    /\ nsrc = "maxroll"
    /\ raw.combat_style = "ranged"
    /\ normalized.combat_style = "ranged"
    /\ Len(raw.skills_en) = 0
    /\ normalized.name_en = "Arc Witch"

\* the text detect_combat_style searches, for the arguments of the call
StyleText == Lower(targs.name \o " " \o Join(targs.skills, " ") \o " " \o targs.description)

\* the number of keywords of a style found in that text
ScoreOf(style) ==
    Cardinality({ i \in 1..Len(StyleKeywords(style)) :
                     Contains(StyleKeywords(style)[i], StyleText) })

FourStyles == { "melee", "ranged", "caster", "summoner" }

TopStyles == { st \in FourStyles : \A other \in FourStyles : ScoreOf(other) <= ScoreOf(st) }

\* C13: detect_combat_style returns the style with the strictly highest
\* keyword score when there is exactly one, and hybrid when all four scores
\* are zero or when two or more styles share the highest score.
C13_CombatStyleRule ==
    tfn = "detect_combat_style" =>
        IF (\A st \in FourStyles : ScoreOf(st) = 0) \/ Cardinality(TopStyles) > 1
        THEN tret = "hybrid"
        ELSE tret \in TopStyles

C13_Witness ==
    /\ tfn = "detect_combat_style"
    /\ targs = [name |-> "Toxic Rain", skills |-> << >>,
                description |-> "Strike with a wand"]
    /\ ScoreOf("melee") = 1
    /\ ScoreOf("ranged") = 1
    /\ tret = "hybrid"

\* the text detect_specialty searches, for the arguments of the call
SpecialtyText == Lower(Join(targs.build_types, " ") \o " " \o targs.description)

\* the labels of the keyword groups that match it
MatchedLabels ==
    { SpecialtyGroups[g].label : g \in
        { g \in 1..Len(SpecialtyGroups) :
            \E i \in 1..Len(SpecialtyGroups[g].kws) :
                Contains(SpecialtyGroups[g].kws[i], SpecialtyText) } }

\* C14: detect_specialty never returns an empty list: it returns the label
\* of each matching keyword group once, and exactly [all_rounder] when no
\* group matches; the specialty of every normalized record is the JSON
\* array string of a non-empty list.
C14_SpecialtyNeverEmpty ==
    /\ tfn = "detect_specialty" =>
          /\ Len(tret) > 0
          /\ IF MatchedLabels = {}
             THEN tret = << "all_rounder" >>
             ELSE /\ { tret[i] : i \in 1..Len(tret) } = MatchedLabels
                  /\ Len(tret) = Cardinality(MatchedLabels)
    /\ Produced =>
          /\ normalized.specialty # "[]"
          /\ NonEmptyArrayString(normalized.specialty)

C14_Witness ==
    /\ tfn = "detect_specialty"
    /\ targs = [build_types |-> << >>, description |-> "nothing of note"]
    /\ MatchedLabels = {}
    /\ tret = << "all_rounder" >>

\* a signature token occurs in s, in any case
HasSignature(s) ==
    \E i \in 1..Len(GARBAGE_PATTERNS) : Contains(Lower(GARBAGE_PATTERNS[i]), Lower(s))

\* C15: is_garbage_text returns true for a null or empty text, for a text
\* containing a signature token in any case anywhere, and for a text whose
\* count of '{', '}' and '":' is more than 5% of its length; it returns
\* false for every other text.
C15_GarbageRule ==
    tfn = "is_garbage_text" =>
        tret = ( \/ targs.text.none
                 \/ Len(targs.text.val) = 0
                 \/ HasSignature(targs.text.val)
                 \/ 20 * json_chars(targs.text.val) > Len(targs.text.val) )

C15_Witness ==
    /\ tfn = "is_garbage_text"
    /\ targs.text = Str("see the GraphQL endpoint for details")
    /\ json_chars(targs.text.val) = 0
    /\ tret = TRUE

\* the patch string of the raw dict handed to a site normalizer
RawPatch ==
    IF nsrc = "maxroll" THEN raw.patch
    ELSE IF ~raw.patchVersion.none /\ raw.patchVersion.val # "" THEN raw.patchVersion.val
    ELSE IF ~raw.patch.none THEN raw.patch.val
    ELSE ""

\* the raw dict has a name
RawNamed ==
    IF nsrc = "maxroll" THEN raw.name_en # ""
    ELSE (~raw.name.none /\ raw.name.val # "") \/ (~raw.title.none /\ raw.title.val # "")

\* C16: a site normalizer returns None whenever the major.minor prefix of
\* the patch string is not 3.27 or 3.26, keeps a named record whenever it
\* is, with the patch string as it was, and so every record it returns has
\* an allowed major.minor prefix.
C16_PatchFilter ==
    /\ (npc = "normalized" /\ nsrc \in {"maxroll", "mobalytics"}) =>
          /\ patch_short(RawPatch) \notin {"3.27", "3.26"} => normalized.none
          /\ (patch_short(RawPatch) \in {"3.27", "3.26"} /\ RawNamed) =>
                (~normalized.none /\ normalized.patch = RawPatch)
    /\ Produced => patch_short(normalized.patch) \in {"3.27", "3.26"}

C16_Witness ==
    /\ npc = "normalized"
    /\ nsrc = "mobalytics"
    /\ RawPatch = "3.27.2"
    /\ ~normalized.none
    /\ normalized.patch = "3.27.2"

\* the page text of the call is empty or has fewer than 50 characters
ShortPage == page_text.none \/ Len(page_text.val) < 50

AllNoneDraft(d) ==
    /\ d.description_en.none /\ d.pros_cons_en.none /\ d.core_equipment_en.none
    /\ d.class_en.none /\ d.ascendancy_en.none

\* C17: for a page text that is empty or shorter than 50 characters,
\* extract_build_info_via_llm returns a draft whose five fields are None
\* and the 'claude' run is never started.
C17_ExtractorShortCircuit ==
    (epc # "idle" /\ ShortPage) =>
        /\ epc = "returned"
        /\ AllNoneDraft(draft)
        /\ ecalls = 0
        /\ ecli = NoExtractCli

C17_Witness ==
    /\ epc = "returned"
    /\ page_text = Str("short text")
    /\ AllNoneDraft(draft)
    /\ ecalls = 0

\* the 'claude' run failed or gave nothing
ExtractCliFailed ==
    \/ ecli.kind \in {"timeout", "raise"}
    \/ ecli.kind = "exit" /\ ecli.returncode # 0
    \/ ecli.kind = "exit" /\ \A k \in 1..Len(ecli.stdout) : SubSeq(ecli.stdout, k, k) \in Whitespace

\* C18: when the 'claude' run times out, exits non-zero, raises or writes
\* nothing, extract_build_info_via_llm returns the draft whose five fields
\* are None, and no call of it ends with an exception.
C18_ExtractorFailureFallback ==
    /\ epc \in {"idle", "calling", "returned"}
    /\ (epc = "returned" /\ ExtractCliFailed) => AllNoneDraft(draft)

C18_Witness ==
    /\ epc = "returned"
    /\ ecli.kind = "exit"
    /\ ecli.returncode = 1
    /\ ~parse_llm_output(ecli.stdout).description_en.none
    /\ AllNoneDraft(draft)

\* C19: a run that is allowed to use the cache and finds a cache file for
\* its source returns exactly the list stored in the file, an empty list
\* included, and fetches nothing; a cache file holds a count equal to the
\* number of its records and the list returned by the run that wrote it,
\* so a later cache-first run returns what that run returned.
C19_CacheFirst ==
    /\ \A st \in CachedSites :
          cfiles[st].exists =>
             /\ cfiles[st].count.n = Len(cfiles[st].builds)
             /\ Len(cwritten[st]) = Len(cfiles[st].builds)
             /\ \A i \in 1..Len(cwritten[st]) :
                   /\ cfiles[st].builds[i].source_id = [j |-> "string", s |-> cwritten[st][i].source_id]
                   /\ cfiles[st].builds[i].favorites = [j |-> "number", n |-> cwritten[st][i].favorites]
                   /\ cfiles[st].builds[i].skills_en =
                         IF cwritten[st][i].skills_en.none THEN [j |-> "null"]
                         ELSE [j |-> "string", s |-> cwritten[st][i].skills_en.val]
    /\ (cpc = "returned" /\ use_cache /\ cfileAtCall.exists) =>
          /\ cresult = cwritten[csite]
          /\ cfetches = 0
          /\ cfiles[csite] = cfileAtCall

C19_Witness ==
    /\ cpc = "returned"
    /\ csite = "mobalytics"
    /\ use_cache
    /\ cfileAtCall.exists
    /\ cfileAtCall.count.n = 0
    /\ cresult = << >>
    /\ cfetches = 0
    /\ cruns = 2

\* the counters of save_builds_to_db that the step has incremented
Incremented ==
    (IF saved_count' = saved_count + 1 THEN {"saved_count"} ELSE {})
    \cup (IF skipped_count' = skipped_count + 1 THEN {"skipped_count"} ELSE {})
    \cup (IF semantic_invalid_count' = semantic_invalid_count + 1
          THEN {"semantic_invalid_count"} ELSE {})

\* C20 as stated: every record that goes through the loop increments
\* exactly one counter, the one of the layer that decided: a saved record
\* the saved count, a record rejected by the semantic layer the semantic
\* count, and a record rejected by the structural or the pattern layer
\* neither of those two.
C20_FourCounters ==
    [][ (pc = "loop" /\ idx' = idx + 1 /\ decision' # "error") =>
           /\ Cardinality(Incremented) = 1
           /\ decision' = "saved" => Incremented = {"saved_count"}
           /\ decision' = "semantic" => Incremented = {"semantic_invalid_count"}
           /\ decision' \in {"skip", "garbage"} => Incremented = {"skipped_count"} ]_vars

\* the listing loads and the detail loads of the run, in order
IsListLoad(e) == e.kind = "list"
IsDetailLoad(e) == e.kind = "detail"
ListLoads == SelectSeq(llog, IsListLoad)
DetailLoads == SelectSeq(llog, IsDetailLoad)

\* no element occurs twice in the sequence
Distinct(s) == \A i, j \in 1..Len(s) : i # j => s[i] # s[j]

\* C21: the identifiers listed by a run are pairwise different (across
\* the result pages of maxroll, within and across the tabs of mobalytics),
\* every listing load of the run comes before its first detail load, each
\* detail load is for a listed identifier, and no two detail loads of the
\* run are for the same identifier.
C21_ListingDedup ==
    /\ Distinct(listed)
    /\ \A i, j \in 1..Len(llog) :
          (i < j /\ llog[i].kind = "detail") => llog[j].kind = "detail"
    /\ \A i \in 1..Len(DetailLoads) :
          /\ DetailLoads[i].id = listed[i]
          /\ \A j \in 1..Len(DetailLoads) : i # j => DetailLoads[i].id # DetailLoads[j].id
    /\ lpc = "listing" => DetailLoads = << >>

C21_Witness ==
    /\ lpc = "returned"
    /\ lsite = "maxroll"
    /\ Len(ListLoads) = 2
    /\ "/build-guides/arc" \in ldups
    /\ Len(listed) = 2
    /\ Len(DetailLoads) = 2

\* why an iteration of the page loop of maxroll ends the loop
PageStops == { "load_failed", "no_data", "no_builds", "no_next" }

\* C22: the listing loads of a maxroll run are for pages 1, 2, 3, ... in
\* this order, and with a page cap N there are at most N of them; an
\* iteration of the page loop ends the loop exactly when the page failed
\* to load, had no data, had no builds or had no next-page link, and
\* otherwise moves to the next page; apart from that the loop ends only
\* at the cap; and a run with a page cap leaves the listing phase.
C22_ListingLoop ==
    /\ [](lsite = "maxroll" =>
            /\ \A i \in 1..Len(ListLoads) : ListLoads[i].page = i
            /\ ~max_pages.none => Len(ListLoads) <= max_pages.val
            /\ lstop = "cap" => ~max_pages.none /\ Len(ListLoads) = max_pages.val)
    /\ [][ (lsite = "maxroll" /\ lpc = "listing") =>
             /\ llog' # llog =>
                   /\ llog' = Append(llog, [kind |-> "list", page |-> current_page,
                                            id |-> ""])
                   /\ lstop' \in PageStops <=> lpc' = "detail"
                   /\ lstop' \notin PageStops =>
                         lpc' = "listing" /\ current_page' = current_page + 1
             /\ llog' = llog => (lpc' = "detail" /\ lstop' = "cap") ]_vars
    /\ ((lsite = "maxroll" /\ lpc = "listing" /\ ~max_pages.none)
           ~> (lpc \in { "detail", "returned" }))

C22_Witness ==
    /\ lsite = "maxroll"
    /\ max_pages = Cap(2)
    /\ lstop = "cap"
    /\ Len(ListLoads) = 2
    /\ Len(listed) = 3

\* C27 as stated: no two records of the list a run of scrape_maxroll or
\* scrape_mobalytics returns have the same source_id.
C27_UniqueSourceIds ==
    lpc = "returned" => Distinct(lresult)

\* the garbage detector flags the string s
FlaggedStr(s) ==
    Len(s) = 0 \/ HasSignature(s) \/ 20 * json_chars(s) > Len(s)

\* the value of a free-text field unless it is flagged
UnlessFlagged(s) == IF FlaggedStr(s) THEN NoneStr ELSE Str(s)

\* C23: for an answer in the requested format, the draft holds for each of
\* description, combined pros/cons and joined equipment the parsed text,
\* or None when the garbage detector flags that text; a flagged field
\* changes no other field, and class and ascendancy are kept.
C23_FieldLevelGarbage ==
    \A s \in SectionSamples :
       (epc = "returned" /\ ~output.none /\ output.val = ComposeOutput(s)) =>
          draft = [description_en |-> UnlessFlagged(s.desc),
                   pros_cons_en |-> UnlessFlagged("Pros:\n" \o s.pros \o "\n\nCons:\n" \o s.cons),
                   core_equipment_en |-> UnlessFlagged(Join(s.items, ", ")),
                   class_en |-> Str(s.class),
                   ascendancy_en |-> Str(s.asc)]

C23_Witness ==
    /\ epc = "returned"
    /\ ~output.none
    /\ Contains("DESCRIPTION:\n{\"__typename\": \"x\"}\n", output.val)
    /\ Contains("PROS:\n- Fast\n", output.val)
    /\ Contains("- Starforge\n", output.val)
    /\ draft.description_en.none
    /\ draft.pros_cons_en = Str("Pros:\n- Fast\n\nCons:\n- Expensive")
    /\ draft.core_equipment_en = Str("Starforge, Abyssus")
    /\ draft.class_en = Str("Duelist")

\* the section labels of an answer
SectionLabels ==
    << "DESCRIPTION:", "PROS:", "CONS:", "CORE_EQUIPMENT:", "CLASS:", "ASCENDANCY:" >>

\* what the answer holds between the first occurrence of the label and
\* the next label (or its end), stripped; "" when the label is missing
SectionValue(label, out) ==
    IF ~Contains(label, out) THEN ""
    ELSE LET j == Min(Occurrences(label, out)) + Len(label)
             nexts == { q \in j..Len(out) :
                          \E k \in 1..Len(SectionLabels) :
                             q \in Occurrences(SectionLabels[k], out) }
             e == Min(nexts \cup { Len(out) + 1 })
         IN  Strip(SubSeq(out, j, e - 1))

\* C24 as stated: a field whose label is missing from the answer or whose
\* section holds no value is None in the draft (pros_cons when neither
\* PROS nor CONS holds a value), and class_en and ascendancy_en are set
\* only when their own section holds a value of 1 to 49 characters.
C24_TolerantParsing ==
    (epc = "returned" /\ ~output.none /\ Len(output.val) > 0) =>
       /\ SectionValue("DESCRIPTION:", output.val) = "" => draft.description_en.none
       /\ (SectionValue("PROS:", output.val) = "" /\ SectionValue("CONS:", output.val) = "")
             => draft.pros_cons_en.none
       /\ SectionValue("CORE_EQUIPMENT:", output.val) = "" => draft.core_equipment_en.none
       /\ SectionValue("CLASS:", output.val) = "" => draft.class_en.none
       /\ SectionValue("ASCENDANCY:", output.val) = "" => draft.ascendancy_en.none
       /\ ~draft.class_en.none => Len(SectionValue("CLASS:", output.val)) \in 1..49
       /\ ~draft.ascendancy_en.none => Len(SectionValue("ASCENDANCY:", output.val)) \in 1..49

\* a name of four characters or more that occurs in the text, in any case
LongNameIn(name, text) == Len(name) >= 4 /\ Contains(Lower(name), Lower(text))

\* C25: _match_build returns the builds, in their order and each once,
\* that have among their first three skills a name of four characters or
\* more occurring in the post text, or whose ascendancy is such a name; a
\* shorter name and a skill after the third match nothing.
C25_MatchBuild ==
    tfn = "_match_build" =>
        tret = SelectSeq(targs.builds,
                   LAMBDA bb :
                      \/ \E i \in 1..Len(bb.skills_en) :
                            i <= 3 /\ LongNameIn(bb.skills_en[i], targs.post_text)
                      \/ LongNameIn(bb.ascendancy_en, targs.post_text))

C25_Witness ==
    /\ tfn = "_match_build"
    /\ targs.post_text = "My Cyclone Slayer with Bladestorm melts bosses"
    /\ Len(targs.builds) = 2
    /\ targs.builds[1].id = 1
    /\ targs.builds[2].id = 2
    /\ Len(tret) = 1
    /\ tret[1].id = 2

\* C26: while save_builds_to_db runs without raising, saved_count plus
\* skipped_count is the number of records the loop has consumed, and at
\* its end the number of records of the batch; every record consumed
\* without an exception increments exactly one of the two by one; and
\* semantic_invalid_count never exceeds skipped_count.
C26_CounterConservation ==
    /\ [](/\ pc \in { "loop", "committed", "returned" } =>
                saved_count + skipped_count = idx
          /\ pc \in { "committed", "returned" } =>
                saved_count + skipped_count = nRecords
          /\ semantic_invalid_count <= skipped_count)
    /\ [][ (pc = "loop" /\ idx' = idx + 1 /\ decision' # "error") =>
              \/ saved_count' = saved_count + 1 /\ skipped_count' = skipped_count
              \/ saved_count' = saved_count /\ skipped_count' = skipped_count + 1 ]_vars

C26_Witness ==
    /\ pc = "returned"
    /\ nRecords = 2
    /\ saved_count = 1
    /\ skipped_count = 1
    /\ semantic_invalid_count = 1


\* the run of the translation CLI gave a translation: exit status 0 and
\* an answer that is not blank
CliSucceeded(c) ==
    c.kind = "exit" /\ c.returncode = 0 /\ Strip(c.stdout) # ""

\* C30: one call of translate_text runs the CLI at most three times; it
\* returns the stripped answer of the first run that exited 0 with an
\* answer that is not blank, every run before it having failed, and runs
\* the CLI no more for that call; it raises exactly when three runs in a
\* row timed out, failed or answered blank; it never returns "".
C30_BoundedRetry ==
    /\ [](/\ Len(tt.log) <= 3
          /\ tt.state = "returned" =>
               /\ Len(tt.log) >= 1
               /\ CliSucceeded(tt.log[Len(tt.log)])
               /\ \A i \in 1..(Len(tt.log) - 1) : ~CliSucceeded(tt.log[i])
               /\ tt.value = Strip(tt.log[Len(tt.log)].stdout)
               /\ tt.value # ""
          /\ tt.state = "raised" =>
               /\ Len(tt.log) = 3
               /\ \A i \in 1..3 : ~CliSucceeded(tt.log[i])
          /\ tt.state = "running" =>
               /\ Len(tt.log) \in 1..2
               /\ \A i \in 1..Len(tt.log) : ~CliSucceeded(tt.log[i]))
    /\ [][ (tt.state \in { "returned", "raised" } /\ tt' # tt)
              => Len(tt'.log) <= 1 ]_vars

\* a call that returned on its third run, after a blank answer and a
\* run that did not exit 0
C30_Witness ==
    /\ tt.state = "returned"
    /\ Len(tt.log) = 3
    /\ tt.log[1].kind = "exit" /\ tt.log[1].returncode = 0
    /\ tt.log[2].kind \in { "timeout", "exit" } /\ ~CliSucceeded(tt.log[2])
    /\ tt.value = "yaku"

\* the row of the table with key k
StoredRow(table, k) == CHOOSE x \in BagToSet(table) : KeyOf(x) = k

HasStoredRow(table, k) == \E x \in BagToSet(table) : KeyOf(x) = k

\* a column of a row is empty: NULL or ""
Falsy(t) == t.none \/ t.val = ""

\* C29: while translate_build runs, the table changes only when the last
\* of its translate_text calls has returned or when one of them raises.
\* In the first case the row becomes completed, every translated column
\* is written in that update from the translations of this run, and True
\* is returned; in the second the row becomes failed, nothing else of it
\* changes, and False is returned. The other rows are left alone, and
\* translation_status is always pending, completed or failed.
C29_TranslateOutcome ==
    /\ [](\A x \in BagToSet(tbuilds) :
             x.translation_status \in { "pending", "completed", "failed" })
    /\ [][ tpc = "translating" =>
             LET o == StoredRow(tbuilds, tkey)
                 n == StoredRow(tbuilds', tkey)
             IN  /\ HasStoredRow(tbuilds, tkey) /\ HasStoredRow(tbuilds', tkey)
                 /\ BagToSet(tbuilds') \ { n } = BagToSet(tbuilds) \ { o }
                 /\ CopiesIn(n, tbuilds') = 1
                 /\ IF tt'.state = "returned" /\ tidx' = Len(ttodo)
                    THEN /\ tok' = "True"
                         /\ n.translation_status = "completed"
                         /\ [n EXCEPT !.ja = o.ja,
                                      !.translation_status = o.translation_status] = o
                         /\ ~n.ja.name_ja.none /\ ~n.ja.class_ja.none
                         /\ n.ja.name_ja = tdone'.name_ja
                         /\ n.ja.class_ja = tdone'.class_ja
                         /\ n.ja.ascendancy_ja.none = Falsy(o.ascendancy_en)
                         /\ n.ja.ascendancy_ja = tdone'.ascendancy_ja
                         /\ n.ja.description_ja.none = Falsy(o.description_en)
                         /\ n.ja.description_ja = tdone'.description_ja
                         /\ n.ja.pros_cons_ja.none = Falsy(o.pros_cons_en)
                         /\ n.ja.pros_cons_ja = tdone'.pros_cons_ja
                         /\ n.ja.core_equipment_ja.none = Falsy(o.core_equipment_en)
                         /\ n.ja.core_equipment_ja = tdone'.core_equipment_ja
                         /\ n.ja.skills_ja.none = Falsy(o.skills_en)
                         /\ ~Falsy(o.skills_en) =>
                               /\ json_loads(n.ja.skills_ja.val) = tdone'.skills
                               /\ Len(tdone'.skills) = Len(json_loads(o.skills_en.val))
                    ELSE IF tt'.state = "raised"
                    THEN /\ tok' = "False"
                         /\ n = [o EXCEPT !.translation_status = "failed"]
                    ELSE /\ tok' = "none"
                         /\ tbuilds' = tbuilds ]_vars

\* a run that failed after some of its calls had returned: the row is
\* failed and holds none of the translations of the run
C29_Witness ==
    /\ tpc = "returned"
    /\ tok = "False"
    /\ tt.state = "raised"
    /\ tidx >= 2
    /\ HasStoredRow(tbuilds, tkey)
    /\ StoredRow(tbuilds, tkey).translation_status = "failed"
    /\ StoredRow(tbuilds, tkey).ja = NoTranslation

\* C28: right after save_builds_to_db has persisted a record, the table
\* holds one row with the key of the record; the row is pending and every
\* translated column of it is empty, whatever the row it replaced held.
\* In every state a pending row has no translated column, and a
\* completed row has its name and class translated.
C28_ReingestResets ==
    /\ ~tsaved.none =>
         /\ HasStoredRow(tbuilds, tsaved.key)
         /\ \A x \in BagToSet(tbuilds) :
               KeyOf(x) = tsaved.key =>
                  /\ CopiesIn(x, tbuilds) = 1
                  /\ x = StoredRow(tbuilds, tsaved.key)
                  /\ x.translation_status = "pending"
                  /\ \A col \in DOMAIN x.ja : x.ja[col].none
    /\ \A x \in BagToSet(tbuilds) :
          /\ x.translation_status = "pending" =>
                \A col \in DOMAIN x.ja : x.ja[col].none
          /\ x.translation_status = "completed" =>
                ~x.ja.name_ja.none /\ ~x.ja.class_ja.none

\* a record was persisted over a row that was completed
C28_Witness ==
    /\ ~tsaved.none
    /\ tsaved.replaced = "completed"
    /\ HasStoredRow(tbuilds, tsaved.key)
    /\ StoredRow(tbuilds, tsaved.key).translation_status = "pending"

=============================================================================
